---- MODULE Spec2Model ----
(***************************************************************************)
(* Model of the banshare bot: the record store (collections, servers,      *)
(* invites, bans) and the command handlers that read and write it.  Each   *)
(* handler is cut at its `await` points: the code between two awaits runs  *)
(* to completion on the single Node.js thread, so it is one action; other  *)
(* handlers may run between two such actions.                              *)
(***************************************************************************)
EXTENDS Integers, Sequences, FiniteSets, TLC

\* ---------------------------------------------------------------- bounds
NumGuilds == 3          \* guild ids 1..NumGuilds
MaxTime == 2            \* the clock is read MaxTime invite lifetimes long
MaxCollections == 2     \* guilds 1..MaxCollections run /collection-create
MaxInvites == 2         \* invite rows ever inserted
MaxCapInput == 1        \* largest value typed into the max-servers modal
NumSess == 2            \* concurrent sessions of one command
NumUsers == 1           \* user ids 1..NumUsers that get banned
NumActors == 2          \* user ids 1..NumActors that run commands
NumRoles == 1           \* role ids 1..NumRoles
NumAdmins == 11         \* members 1..NumAdmins of a main guild's administrator roles
NumAdminRoles == 2      \* administrator roles 1..NumAdminRoles of a main guild
MaxAttachments == 2     \* attachments 1..MaxAttachments of one evidence message
MaxBufLen == 4          \* downloaded buffers of up to MaxBufLen bytes
MaxNameLen == 4         \* file names and references of up to MaxNameLen characters

\* ------------------------------------------------------ program constants
DefaultMaxLinkedServers == 30
InviteTtlHours == 48
MaxAttempts == 10
MaxEvidenceFiles == 5
PlainTextWindow == 100

Guilds == 1..NumGuilds
Owners == 1..MaxCollections
Users == 1..NumUsers
Sess == 1..NumSess
Actors == 1..NumActors
Roles == 1..NumRoles
Admins == 1..NumAdmins
AdminRoles == 1..NumAdminRoles

VARIABLES
    now,          \* wall clock, in hours
    collections,  \* table collections: set of rows
    servers,      \* table servers: set of rows
    invites,      \* table invites: set of rows
    nextId,       \* newId(): next fresh id per table
    createSess,   \* /collection-create sessions that passed the checks
    inviteSess,   \* /collection-invite sessions between check and insert
    joinSess,     \* /collection-join sessions showing a confirmation
    bans,         \* table bans: set of rows
    nextBanId,    \* newId() for the bans table
    banSess,      \* /shareban sessions
    unbanSess,    \* /unshareban sessions
    moderators,   \* table moderators: set of rows
    auditLogs,    \* table auditLogs: set of rows
    deleteSess,   \* /collection-delete sessions awaiting confirmation
    viewSess,     \* /view-banshare: what the command replied
    modsSess,     \* /collection-mods: the moderator panel
    notify,       \* sendAuditLogNotifications: the notification task followed
    editSess,     \* /edit-shareban: the session showing the configuration menu
    addSess,      \* /collection-mods: a second panel, collecting moderators to add
    evidenceIo    \* one file on its way through the evidence store

memberVars == <<now, collections, servers, invites, nextId, createSess, inviteSess, joinSess>>
banVars == <<bans, nextBanId, banSess, unbanSess>>
groupVars == <<moderators, auditLogs, deleteSess, viewSess, modsSess, notify, editSess, addSess, evidenceIo>>
vars == <<now, collections, servers, invites, nextId, createSess, inviteSess, joinSess,
          bans, nextBanId, banSess, unbanSess, moderators, auditLogs, deleteSess, viewSess, modsSess,
          notify, editSess, addSess, evidenceIo>>

\* ------------------------------------------------------------ record store

\* guild.ownerId: the platform's owner of a guild
GuildOwnerId(g) == g

\* member.roles.cache: the roles a user holds; the last user holds them all
MemberRoles(actorId) == IF actorId = NumActors THEN Roles ELSE {}

\* Moderator.listByCollection
ModeratorListByCollection(cid) == {m \in moderators : m.collectionId = cid}

\* Collection.getByMainGuildId: the rows owned by guild g
CollectionGetByMainGuildId(g) == {c \in collections : c.mainGuildId = g}

\* Collection.getById
CollectionGetById(id) == {c \in collections : c.id = id}

\* Server.listByCollection: every row of the collection, enabled or not
ServerListByCollection(cid) == {s \in servers : s.collectionId = cid}

\* a lookup that selects the soft-deleted rows instead of the enabled ones
ServerGetByGuildIdDisabled(g) == {s \in servers : s.guildId = g /\ ~s.enabled}

\* Server.getByGuildId: WHERE guildId = ? AND enabled = 1
ServerGetByGuildId(g) == {s \in servers : s.guildId = g /\ s.enabled}

\* the enabled Members of a collection
EnabledMembers(cid) == {s \in ServerListByCollection(cid) : s.enabled}

\* an expiry test that never fires
IsExpiredNever(inv) == FALSE

\* Invite.isExpired: new Date(expiresAt) < new Date()
IsExpired(inv) == inv.expiresAt < now

\* Invite.hasPendingInvite: status = 'pending' AND expiresAt > now
HasPendingInvite(cid, g) ==
    \E inv \in invites : /\ inv.collectionId = cid
                         /\ inv.targetGuildId = g
                         /\ inv.status = "pending"
                         /\ inv.expiresAt > now

\* Invite.listPendingForGuild
ListPendingForGuild(g) ==
    {inv \in invites : inv.targetGuildId = g /\ inv.status = "pending" /\ inv.expiresAt > now}

InviteById(id) == CHOOSE inv \in invites : inv.id = id

\* AuditLog.create: the inserted row (its id, actor, time and details left
\* out, so that equal entries coincide)
AuditLogCreateRow(cid, action) == [collectionId |-> cid, action |-> action]

\* logAction on the table `log`: AuditLog.create inside try/catch; when the
\* INSERT throws (the store fails, or cid names no collection: foreign key)
\* the error is logged to the console and nothing is written
LogAction(log, colls, cid, action, auditFails) ==
    IF auditFails \/ ~(\E c \in colls : c.id = cid)
    THEN log
    ELSE log \cup {AuditLogCreateRow(cid, action)}

\* ------------------------------------------------------- notification task

\* One run of sendAuditLogNotifications is followed at a time: `pc` is where
\* it stands, `pending` the members' channels still to try, `log` the
\* deliveries attempted so far, `attempts` the counter of dmCollectionAdmins.
\* "off": no run is followed; "idle": the next run started will be.
NotifyOff ==
    [pc |-> "off", collectionId |-> 0, mainGuildId |-> 0, pending |-> <<>>,
     log |-> <<>>, attempts |-> 0]

NotifyIdle == [NotifyOff EXCEPT !.pc = "idle"]

\* a call that is awaited: the run has made its delivery when the call returns
SendAuditLogNotificationsAwaited(n, colls, cid) ==
    IF n.pc # "idle" \/ ~(\E c \in colls : c.id = cid) THEN n
    ELSE LET c == CHOOSE c \in colls : c.id = cid
         IN  [n EXCEPT !.pc = "done", !.collectionId = cid, !.mainGuildId = c.mainGuildId,
                       !.log = <<[stage |-> "main", target |-> c.mainGuildId,
                                  role |-> 0, ok |-> TRUE]>>]

\* sendAuditLogNotifications up to its first await, which is where the call
\* in logAction returns: the collection is looked up (not found: the run
\* ends), logging switched off ends the run, otherwise the run is pending
\* with nothing delivered yet
SendAuditLogNotifications(n, colls, cid) ==
    IF n.pc # "idle" \/ ~(\E c \in colls : c.id = cid) THEN n
    ELSE LET c == CHOOSE c \in colls : c.id = cid
         IN  IF ~c.loggingEnabledAtCollectionLevel THEN n
             ELSE [n EXCEPT !.pc = "embed", !.collectionId = cid,
                            !.mainGuildId = c.mainGuildId]

\* logAction as seen by the notification task: a run starts when
\* AuditLog.create returned, and it is not awaited; two calls in one handler
\* start two runs, of which the first is the one followed
LogActionNotify(n, colls, cid, auditFails) ==
    IF auditFails \/ ~(\E c \in colls : c.id = cid)
    THEN n
    ELSE SendAuditLogNotifications(n, colls, cid)

\* ------------------------------------------------------------------ clock

\* time passes between any two handler steps; the clock is observed once per
\* invite lifetime, which is where every comparison with expiresAt changes
Tick ==
    /\ now < MaxTime * InviteTtlHours
    /\ now' = now + InviteTtlHours
    /\ UNCHANGED <<collections, servers, invites, nextId, createSess, inviteSess, joinSess,
                   bans, nextBanId, banSess, unbanSess, groupVars>>

\* ------------------------------------------------------ /collection-create

\* chatInputRun up to the first await: the guild owns no collection and is
\* no enabled member of one; the draft menu is then shown.  createSess[g]
\* counts the draft menus open in guild g
CreateStart(g) ==
    /\ createSess[g] < NumSess
    /\ nextId.collection <= MaxCollections
    /\ CollectionGetByMainGuildId(g) = {}
    /\ ServerGetByGuildId(g) = {}
    /\ createSess' = [createSess EXCEPT ![g] = @ + 1]
    /\ UNCHANGED <<now, collections, servers, invites, nextId, inviteSess, joinSess,
                   bans, nextBanId, banSess, unbanSess, groupVars>>

\* an INSERT INTO collections on a table without the UNIQUE(mainGuildId)
\* constraint
CollectionInsertNoUnique(row) == collections \cup {row}

\* INSERT INTO collections: mainGuildId is UNIQUE, so the statement throws
\* and inserts nothing when the guild already owns a row
CollectionInsert(row) ==
    IF \E c \in collections : c.mainGuildId = row.mainGuildId
    THEN collections
    ELSE collections \cup {row}

\* Collection.create: the row it inserts, with the default capacity, logging
\* switched on and the policy 'retain' for a server that leaves
CollectionCreateRow(id, g) ==
    [id |-> id, mainGuildId |-> g, maxLinkedServers |-> DefaultMaxLinkedServers,
     loggingEnabledAtCollectionLevel |-> TRUE, onServerRemove |-> "retain"]

\* handleButton 'collection-create:save': Collection.create, then logAction;
\* when the insert throws, the handler catches it and reports the failure
CreateSave(g, auditFails) ==
    /\ createSess[g] > 0
    /\ createSess' = [createSess EXCEPT ![g] = @ - 1]
    /\ collections' = CollectionInsert(CollectionCreateRow(nextId.collection, g))
    /\ nextId' = IF collections' # collections
                 THEN [nextId EXCEPT !.collection = @ + 1]
                 ELSE nextId
    /\ auditLogs' = IF collections' # collections
                    THEN LogAction(auditLogs, collections', nextId.collection,
                                   "collection.create", auditFails)
                    ELSE auditLogs
    /\ notify' = IF collections' # collections
                 THEN LogActionNotify(notify, collections', nextId.collection, auditFails)
                 ELSE notify
    /\ UNCHANGED <<now, servers, invites, inviteSess, joinSess,
                   bans, nextBanId, banSess, unbanSess, moderators, deleteSess, viewSess, modsSess, editSess, addSess, evidenceIo>>

\* -------------------------------------------------------- /collection-edit

\* /collection-edit, from the permission check (the guild owner or an
\* administrator) to handleEditMaxServers: a positive value typed into the
\* modal replaces the collection's capacity; nothing is checked against the
\* current members
EditMaxServers(actorId, hasAdminPermission, c, parsed, auditFails) ==
    /\ c \in collections
    /\ GuildOwnerId(c.mainGuildId) = actorId \/ hasAdminPermission
    /\ parsed > 0
    /\ parsed # c.maxLinkedServers
    /\ collections' = (collections \ {c}) \cup {[c EXCEPT !.maxLinkedServers = parsed]}
    /\ auditLogs' = LogAction(auditLogs, collections, c.id, "setting.update", auditFails)
    /\ notify' = LogActionNotify(notify, collections', c.id, auditFails)
    /\ UNCHANGED <<now, servers, invites, nextId, createSess, inviteSess, joinSess,
                   bans, nextBanId, banSess, unbanSess, moderators, deleteSess, viewSess, modsSess, editSess, addSess, evidenceIo>>

\* ------------------------------------------------------ /collection-invite

IdleInvite == [pc |-> "idle", collectionId |-> 0, targetGuildId |-> 0]

\* chatInputRun up to `await guilds.fetch`: the caller's guild owns a
\* collection, the target is another guild, and hasPendingInvite is false
InviteCheck(s, c, target) ==
    /\ inviteSess[s].pc = "idle"
    /\ c \in collections
    /\ target # c.mainGuildId
    /\ nextId.invite <= MaxInvites
    /\ ~HasPendingInvite(c.id, target)
    /\ inviteSess' = [inviteSess EXCEPT ![s] =
          [pc |-> "checked", collectionId |-> c.id, targetGuildId |-> target]]
    /\ UNCHANGED <<now, collections, servers, invites, nextId, createSess, joinSess,
                   bans, nextBanId, banSess, unbanSess, groupVars>>

\* the same handler when hasPendingInvite is true: the error embed is the
\* reply and nothing is written
InviteRejected(s, c, target) ==
    /\ inviteSess[s].pc = "idle"
    /\ c \in collections
    /\ target # c.mainGuildId
    /\ HasPendingInvite(c.id, target)
    /\ UNCHANGED vars

\* Invite.create: a pending row that expires InviteTtlHours after issuance
InviteCreateRow(id, cid, target) ==
    [id |-> id, collectionId |-> cid, targetGuildId |-> target,
     invitedAt |-> now, expiresAt |-> now + InviteTtlHours, status |-> "pending"]

\* chatInputRun after `await deferReply`: Invite.create, with no second look
\* at the pending invites, and the logAction that follows it
InviteCreate(s, auditFails) ==
    /\ inviteSess[s].pc = "checked"
    /\ nextId.invite <= MaxInvites
    /\ invites' = invites \cup
          {InviteCreateRow(nextId.invite, inviteSess[s].collectionId, inviteSess[s].targetGuildId)}
    /\ nextId' = [nextId EXCEPT !.invite = @ + 1]
    /\ inviteSess' = [inviteSess EXCEPT ![s] = IdleInvite]
    /\ auditLogs' = LogAction(auditLogs, collections, inviteSess[s].collectionId,
                              "invite.create", auditFails)
    /\ notify' = LogActionNotify(notify, collections, inviteSess[s].collectionId, auditFails)
    /\ UNCHANGED <<now, collections, servers, createSess, joinSess,
                   bans, nextBanId, banSess, unbanSess, moderators, deleteSess, viewSess, modsSess, editSess, addSess, evidenceIo>>

\* -------------------------------------------------------- /collection-join

IdleJoin == [pc |-> "idle", guildId |-> 0, inviteId |-> 0, syncOnJoin |-> TRUE]

\* chatInputRun and the invite list: the guild is no enabled member, and one
\* of its pending unexpired invites is put up for confirmation, with the
\* sync toggle switched on
JoinStart(s, g, inv) ==
    /\ joinSess[s].pc = "idle"
    /\ ServerGetByGuildId(g) = {}
    /\ inv \in ListPendingForGuild(g)
    /\ joinSess' = [joinSess EXCEPT ![s] =
          [pc |-> "confirm", guildId |-> g, inviteId |-> inv.id, syncOnJoin |-> TRUE]]
    /\ UNCHANGED <<now, collections, servers, invites, nextId, createSess, inviteSess,
                   bans, nextBanId, banSess, unbanSess, groupVars>>

\* 'collection-join:toggle-sync' on the confirmation prompt: the toggle flips
ToggleSync(s) ==
    /\ joinSess[s].pc = "confirm"
    /\ joinSess' = [joinSess EXCEPT ![s].syncOnJoin = ~@]
    /\ UNCHANGED <<now, collections, servers, invites, nextId, createSess, inviteSess,
                   bans, nextBanId, banSess, unbanSess, groupVars>>

\* Server.add: the inserted row, enabled by default, with syncOnJoin true
\* unless the input says otherwise and, as /collection-join passes no logging
\* channel, with loggingChannelId NULL (0)
ServerAddRow(g, cid) ==
    [guildId |-> g, collectionId |-> cid, enabled |-> TRUE, loggingChannelId |-> 0,
     syncOnJoin |-> TRUE]

\* acceptInvite after Server.add, the members.ban calls made in the guild that
\* joined: the toggle is stored in the servers row, written to the console
\* and to the audit details, and nothing reads it; the handler makes no ban
\* call, with the toggle on or off
SyncOnJoinCalls(g, cid, syncOnJoin) == {}

\* the outcome of acceptInvite's checks, in the order the code makes them
AcceptOutcome(g, inv) ==
    IF inv.status # "pending" \/ IsExpired(inv) THEN "invalid"
    ELSE IF ServerGetByGuildId(g) # {} THEN "already"
    ELSE IF CollectionGetById(inv.collectionId) = {} THEN "nocollection"
    ELSE IF Cardinality(ServerListByCollection(inv.collectionId))
              >= (CHOOSE c \in CollectionGetById(inv.collectionId) : TRUE).maxLinkedServers
         THEN "capacity"
    ELSE IF \E r \in servers : r.collectionId = inv.collectionId /\ r.guildId = g
         THEN "constraint"   \* UNIQUE(collectionId, guildId) makes Server.add throw
    ELSE "joined"

\* acceptInvite from invite.reload() to invite.accept(): no await in between.
\* The two writes are separate statements, not one transaction: when the
\* store fails the second one (writeFails), the first one stays and the
\* handler ends there; otherwise the two logAction calls follow.
AcceptInvite(s, writeFails, auditFails) ==
    /\ joinSess[s].pc = "confirm"
    /\ LET g == joinSess[s].guildId
           inv == InviteById(joinSess[s].inviteId)
           outcome == AcceptOutcome(g, inv)
       IN  IF outcome = "joined"
           THEN /\ servers' = servers \cup
                        {[ServerAddRow(g, inv.collectionId)
                             EXCEPT !.syncOnJoin = joinSess[s].syncOnJoin]}
                /\ nextId' = nextId
                /\ IF writeFails
                   THEN /\ invites' = invites
                        /\ ~auditFails
                        /\ auditLogs' = auditLogs
                        /\ notify' = notify
                   ELSE /\ invites' = (invites \ {inv}) \cup {[inv EXCEPT !.status = "accepted"]}
                        /\ auditLogs' =
                              LogAction(LogAction(auditLogs, collections, inv.collectionId,
                                                  "server.add", auditFails),
                                        collections, inv.collectionId, "invite.accept", auditFails)
                        /\ notify' = LogActionNotify(notify, collections, inv.collectionId,
                                                     auditFails)
           ELSE /\ ~writeFails
                /\ ~auditFails
                /\ UNCHANGED <<servers, invites, nextId, auditLogs, notify>>
    /\ joinSess' = [joinSess EXCEPT ![s] = IdleJoin]
    /\ UNCHANGED <<now, collections, createSess, inviteSess,
                   bans, nextBanId, banSess, unbanSess, moderators, deleteSess, viewSess, modsSess, editSess, addSess, evidenceIo>>

\* ------------------------------------------------- Invite.cancel / expire

\* Invite.save after a status change: the UPDATE rewrites status (and
\* respondedAt) of the row with the invite's id, whatever it held before
InviteSaveStatus(inv, status) ==
    (invites \ {inv}) \cup {[inv EXCEPT !.status = status]}

\* Invite.cancel: status = 'cancelled'; save(). The method does not look at
\* the status the invite has.
InviteCancel(inv) ==
    /\ inv \in invites
    /\ inv.status # "cancelled"
    /\ invites' = InviteSaveStatus(inv, "cancelled")
    /\ UNCHANGED <<now, collections, servers, nextId, createSess, inviteSess, joinSess,
                   bans, nextBanId, banSess, unbanSess, groupVars>>

\* Invite.expire: status = 'expired'; save(), likewise unguarded
InviteExpire(inv) ==
    /\ inv \in invites
    /\ inv.status # "expired"
    /\ invites' = InviteSaveStatus(inv, "expired")
    /\ UNCHANGED <<now, collections, servers, nextId, createSess, inviteSess, joinSess,
                   bans, nextBanId, banSess, unbanSess, groupVars>>

\* ----------------------------------------------------------- Server.remove

\* Server.remove: the soft delete, enabled = false; the row stays
ServerRemove(r) ==
    /\ r \in servers
    /\ r.enabled
    /\ servers' = (servers \ {r}) \cup {[r EXCEPT !.enabled = FALSE]}
    /\ UNCHANGED <<now, collections, invites, nextId, createSess, inviteSess, joinSess,
                   bans, nextBanId, banSess, unbanSess, groupVars>>

\* ---------------------------------------------------------------- /shareban

IdleBan == [pc |-> "idle", collectionId |-> 0, mainGuildId |-> 0, userId |-> 0,
            guildId |-> 0, actorId |-> 0, allServers |-> {}, selected |-> {},
            results |-> <<>>, banId |-> 0, evidence |-> 0, privatiseReason |-> TRUE]

\* isUserModerator: a user grant naming the member, or a role grant naming a
\* role the member holds
IsUserModerator(actorId, cid) ==
    \E m \in ModeratorListByCollection(cid) :
       \/ m.type = "user" /\ m.value = actorId
       \/ m.type = "role" /\ m.value \in MemberRoles(actorId)

\* isOwner of /shareban, /edit-shareban, /view-banshare and /lookup-shareban:
\* the command runs in the main guild and the caller owns that guild
IsOwner(actorId, g, c) == c.mainGuildId = g /\ GuildOwnerId(g) = actorId

\* the check `if (!isMod && !isOwner)` of those four commands
BanAuthorized(actorId, g, c) == IsUserModerator(actorId, c.id) \/ IsOwner(actorId, g, c)

\* isMainGuild || isLinkedServer of /edit-shareban and /view-banshare
GuildInCollection(g, c) ==
    \/ c.mainGuildId = g
    \/ \E r \in ServerGetByGuildId(g) : r.collectionId = c.id /\ r.enabled

\* a set of guild ids as a list, ascending
RECURSIVE SetToSeq(_)
SetToSeq(S) ==
    IF S = {} THEN <<>>
    ELSE LET m == CHOOSE x \in S : \A y \in S : x <= y
         IN  <<m>> \o SetToSeq(S \ {m})

\* the guild ids a list of results or targets holds
GuildsOf(seq) == {seq[i].guildId : i \in 1..Len(seq)}

\* Ban.listByCollection(collectionId, true): the active bans of a collection
BanListActive(cid) == {b \in bans : b.collectionId = cid /\ b.active}

\* chatInputRun: the collection the command's guild acts for, as a set (empty
\* when the guild neither owns a collection nor is an enabled member of one)
CollectionOfGuild(g) ==
    IF CollectionGetByMainGuildId(g) # {}
    THEN CollectionGetByMainGuildId(g)
    ELSE UNION {CollectionGetById(r.collectionId) : r \in ServerGetByGuildId(g)}

\* buildServerInfoList: the main guild and the enabled linked servers
BuildServerInfoList(c) ==
    {c.mainGuildId} \cup {r.guildId : r \in EnabledMembers(c.id)}

\* the order in which a list of servers is iterated: the main guild was
\* inserted first, the linked ones follow (here by ascending id)
IterationOrder(main, guilds) ==
    (IF main \in guilds THEN <<main>> ELSE <<>>) \o SetToSeq(guilds \ {main})

\* chatInputRun of /shareban up to showConfigurationMenu: the collection is
\* resolved, the caller is a moderator or the owner, the target has no
\* active ban in it, every server is selected and the reason is private
BanStart(s, actorId, g, u) ==
    /\ banSess[s].pc = "idle"
    /\ \E c \in CollectionOfGuild(g) :
          /\ BanAuthorized(actorId, g, c)
          /\ BuildServerInfoList(c) # {}
          /\ ~(\E b \in BanListActive(c.id) : b.userId = u)
          /\ banSess' = [banSess EXCEPT ![s] =
                [pc |-> "config", collectionId |-> c.id, mainGuildId |-> c.mainGuildId,
                 userId |-> u, guildId |-> g, actorId |-> actorId,
                 allServers |-> BuildServerInfoList(c),
                 selected |-> BuildServerInfoList(c), results |-> <<>>, banId |-> 0,
                 evidence |-> 0, privatiseReason |-> TRUE]]
    /\ UNCHANGED <<now, collections, servers, invites, nextId, createSess, inviteSess,
                   joinSess, bans, nextBanId, unbanSess, groupVars>>

\* handleSelectServers: toggle one linked server of the session's list; the
\* main guild cannot be deselected
BanSelectServers(s, g) ==
    /\ banSess[s].pc = "config"
    /\ g \in banSess[s].allServers
    /\ g # banSess[s].mainGuildId
    /\ banSess' = [banSess EXCEPT ![s].selected =
                      IF g \in @ THEN @ \ {g} ELSE @ \cup {g}]
    /\ UNCHANGED <<now, collections, servers, invites, nextId, createSess, inviteSess,
                   joinSess, bans, nextBanId, unbanSess, groupVars>>

\* 'shareban_privatise': the menu's toggle flips
BanTogglePrivatise(s) ==
    /\ banSess[s].pc = "config"
    /\ banSess' = [banSess EXCEPT ![s].privatiseReason = ~@]
    /\ UNCHANGED <<now, collections, servers, invites, nextId, createSess, inviteSess,
                   joinSess, bans, nextBanId, unbanSess, groupVars>>

\* /shareban's handleEvidenceUpload: of the attachments of the message, as
\* many as the list has slots left are taken, and each one that downloads
\* and passes the file check is stored and pushed onto config.evidence
ShareEvidenceUpload(evidence, attachments) ==
    IF attachments <= MaxEvidenceFiles - evidence
    THEN evidence + attachments
    ELSE MaxEvidenceFiles

\* 'shareban_evidence', enabled while the menu holds fewer than
\* MAX_EVIDENCE_FILES files: the files of one message are accepted
BanEvidenceUpload(s, attachments) ==
    /\ banSess[s].pc = "config"
    /\ banSess[s].evidence < MaxEvidenceFiles
    /\ attachments > 0
    /\ banSess' = [banSess EXCEPT ![s].evidence = ShareEvidenceUpload(@, attachments)]
    /\ UNCHANGED <<now, collections, servers, invites, nextId, createSess, inviteSess,
                   joinSess, bans, nextBanId, unbanSess, groupVars>>

\* the collector's 'shareban_confirm' branch: the button is enabled once a
\* reason is set and a server is selected; collector.stop() ends the menu
BanConfirm(s) ==
    /\ banSess[s].pc = "config"
    /\ banSess[s].selected # {}
    /\ banSess' = [banSess EXCEPT ![s].pc = "banning"]
    /\ UNCHANGED <<now, collections, servers, invites, nextId, createSess, inviteSess,
                   joinSess, bans, nextBanId, unbanSess, groupVars>>

\* the input handleConfirmBan hands to Ban.create: no run list, no evidence
ConfirmBanInput(sess) ==
    [userId |-> sess.userId, collectionId |-> sess.collectionId,
     moderatorId |-> sess.actorId, moderatorGuildId |-> sess.guildId,
     privatiseReason |-> sess.privatiseReason]

\* Ban.create: the inserted row; missing inputs take their defaults
BanCreateRow(id, input) ==
    [id |-> id,
     collectionId |-> input.collectionId,
     userId |-> input.userId,
     moderatorId |-> input.moderatorId,
     moderatorGuildId |-> input.moderatorGuildId,
     active |-> IF "active" \in DOMAIN input THEN input.active ELSE TRUE,
     appliedServersRecent |->
         IF "appliedServersRecent" \in DOMAIN input THEN input.appliedServersRecent ELSE <<>>,
     evidence |-> IF "evidence" \in DOMAIN input THEN input.evidence ELSE 0,
     privatiseReason |->
         IF "privatiseReason" \in DOMAIN input THEN input.privatiseReason ELSE TRUE]

\* a loop that turns to the failed server again instead of moving on
NextTargetRetryFailed(sess) ==
    IF sess.results # <<>> /\ ~sess.results[Len(sess.results)].success
    THEN sess.results[Len(sess.results)].guildId
    ELSE IterationOrder(sess.mainGuildId, sess.selected \ GuildsOf(sess.results))[1]

\* the next server handleConfirmBan's loop turns to: the first selected one
\* that has no result yet
NextTarget(sess) ==
    IterationOrder(sess.mainGuildId, sess.selected \ GuildsOf(sess.results))[1]

\* a loop that gives up at the first failed server
LoopDoneAbortOnFailure(sess, results) ==
    \/ Len(results) = Cardinality(sess.selected)
    \/ ~results[Len(results)].success

\* the for-of loop over the selected servers has run out
LoopDone(sess, results) == Len(results) = Cardinality(sess.selected)

\* handleConfirmBan, one loop iteration: the platform call for the next
\* selected server resolves (ok) or throws, and its result is pushed; after
\* the last one the Ban row is inserted in the same synchronous stretch and
\* the outcome is logged
BanApply(s, ok, auditFails) ==
    /\ banSess[s].pc = "banning"
    /\ LET sess == banSess[s]
           results == Append(sess.results, [guildId |-> NextTarget(sess), success |-> ok])
       IN  IF ~LoopDone(sess, results)
           THEN /\ ~auditFails
                /\ banSess' = [banSess EXCEPT ![s].results = results]
                /\ UNCHANGED <<bans, nextBanId, auditLogs, notify>>
           ELSE IF CollectionGetById(sess.collectionId) = {}
           THEN \* the insert violates the foreign key: Ban.create throws
                /\ ~auditFails
                /\ banSess' = [banSess EXCEPT ![s].results = results, ![s].pc = "failed"]
                /\ UNCHANGED <<bans, nextBanId, auditLogs, notify>>
           ELSE /\ bans' = bans \cup {BanCreateRow(nextBanId, ConfirmBanInput(sess))}
                /\ nextBanId' = nextBanId + 1
                /\ banSess' = [banSess EXCEPT ![s].results = results, ![s].pc = "done",
                                              ![s].banId = nextBanId]
                /\ auditLogs' =
                      LET log == LogAction(auditLogs, collections, sess.collectionId,
                                           "ban.create", auditFails)
                      IN  IF \E i \in 1..Len(results) : ~results[i].success
                          THEN LogAction(log, collections, sess.collectionId,
                                         "ban.sync.failed", auditFails)
                          ELSE log
                /\ notify' = LogActionNotify(notify, collections, sess.collectionId,
                                             auditFails)
    /\ UNCHANGED <<now, collections, servers, invites, nextId, createSess, inviteSess,
                   joinSess, unbanSess, moderators, deleteSess, viewSess, modsSess, editSess, addSess, evidenceIo>>

\* -------------------------------------------------------------- /unshareban

IdleUnban == [pc |-> "idle", userId |-> 0, actorId |-> 0,
              bans |-> <<>>, targets |-> <<>>, results |-> <<>>]

\* Ban.findByUserId(userId, true), newest first
RECURSIVE BansToSeq(_)
BansToSeq(S) ==
    IF S = {} THEN <<>>
    ELSE LET m == CHOOSE x \in S : \A y \in S : x.id >= y.id
         IN  <<m>> \o BansToSeq(S \ {m})

\* isMod of /unshareban: a user grant naming the caller
IsUserGrantee(actorId, cid) ==
    \E m \in ModeratorListByCollection(cid) : m.type = "user" /\ m.value = actorId

\* the check `if (isOwner || isMod)` of /unshareban, where isOwner is that the
\* command runs in the collection's main guild
UnbanAuthorized(actorId, g, c) == c.mainGuildId = g \/ IsUserGrantee(actorId, c.id)

\* chatInputRun of /unshareban: the active bans of the user the caller may
\* lift: those of the collection the command's guild owns and those of the
\* collections that hold a user grant for the caller
BansUserCanUnban(actorId, g, u) ==
    {b \in bans : /\ b.userId = u
                  /\ b.active
                  /\ \E c \in CollectionGetById(b.collectionId) :
                        UnbanAuthorized(actorId, g, c)}

\* executeUnban, per ban: the main guild and every row Server.listByCollection
\* returns for the ban's collection, without duplicates
UnbanGuildIds(b) ==
    LET c == CHOOSE c \in CollectionGetById(b.collectionId) : TRUE
    IN  IterationOrder(c.mainGuildId,
                       {c.mainGuildId} \cup {r.guildId : r \in ServerListByCollection(c.id)})

\* executeUnban skips a ban whose collection no longer exists
RECURSIVE SkipOrphans(_)
SkipOrphans(list) ==
    IF list = <<>> \/ CollectionGetById(Head(list).collectionId) # {} THEN list
    ELSE SkipOrphans(Tail(list))

\* chatInputRun up to the confirmation prompt
UnbanStart(actorId, g, u) ==
    /\ unbanSess.pc = "idle"
    /\ BansUserCanUnban(actorId, g, u) # {}
    /\ unbanSess' = [IdleUnban EXCEPT !.pc = "confirm", !.userId = u,
                                      !.actorId = actorId,
                                      !.bans = BansToSeq(BansUserCanUnban(actorId, g, u))]
    /\ UNCHANGED <<now, collections, servers, invites, nextId, createSess, inviteSess,
                   joinSess, bans, nextBanId, banSess, groupVars>>

\* 'unshareban:confirm': executeUnban starts on the first ban and resolves
\* the servers to unban from
UnbanConfirm ==
    /\ unbanSess.pc = "confirm"
    /\ LET list == SkipOrphans(unbanSess.bans)
       IN  unbanSess' =
             IF list = <<>>
             THEN [unbanSess EXCEPT !.pc = "done", !.bans = <<>>]
             ELSE [unbanSess EXCEPT !.pc = "running", !.bans = list,
                                    !.targets = UnbanGuildIds(Head(list)), !.results = <<>>]
    /\ UNCHANGED <<now, collections, servers, invites, nextId, createSess, inviteSess,
                   joinSess, bans, nextBanId, banSess, groupVars>>

\* a revocation that deleted the row instead of flipping the flag
BanSaveDelete(b) == {row \in bans : row.id # b.id}

\* the rows left after ban.active = false; ban.save(): the UPDATE rewrites the
\* row with the given id from the object the session loaded
BanSaveInactive(b) ==
    {IF row.id = b.id THEN [b EXCEPT !.active = FALSE] ELSE row : row \in bans}

\* executeUnban, one inner iteration: the unban call for the next server
\* resolves (ok) or throws; after the last server the ban is saved inactive,
\* the outcome is logged and the loop turns to the next ban. When ban.save()
\* throws (saveFails), the catch around the ban's iteration writes a console
\* line: nothing is saved or logged, and the loop turns to the next ban
UnbanApply(ok, saveFails, auditFails) ==
    /\ unbanSess.pc = "running"
    /\ LET b == Head(unbanSess.bans)
           results == Append(unbanSess.results,
                             [guildId |-> unbanSess.targets[Len(unbanSess.results) + 1],
                              success |-> ok])
           rest == SkipOrphans(Tail(unbanSess.bans))
       IN  IF Len(results) < Len(unbanSess.targets)
           THEN /\ ~auditFails
                /\ ~saveFails
                /\ unbanSess' = [unbanSess EXCEPT !.results = results]
                /\ UNCHANGED <<bans, auditLogs, notify>>
           ELSE /\ IF saveFails
                   THEN /\ ~auditFails
                        /\ UNCHANGED <<bans, auditLogs, notify>>
                   ELSE /\ bans' = BanSaveInactive(b)
                        /\ auditLogs' =
                              LET log == LogAction(auditLogs, collections, b.collectionId,
                                                   "ban.revoke", auditFails)
                              IN  IF \E i \in 1..Len(results) : ~results[i].success
                                  THEN LogAction(log, collections, b.collectionId,
                                                 "ban.revoke.failed", auditFails)
                                  ELSE log
                        /\ notify' = LogActionNotify(notify, collections, b.collectionId,
                                                     auditFails)
                /\ unbanSess' =
                     IF rest = <<>>
                     THEN [unbanSess EXCEPT !.pc = "done", !.results = results]
                     ELSE [unbanSess EXCEPT !.bans = rest, !.results = <<>>,
                                            !.targets = UnbanGuildIds(Head(rest))]
    /\ UNCHANGED <<now, collections, servers, invites, nextId, createSess, inviteSess,
                   joinSess, nextBanId, banSess, moderators, deleteSess, viewSess, modsSess, editSess, addSess, evidenceIo>>

\* --------------------------------------------------- a call never returns

\* handleConfirmBan awaits guilds.fetch and members.ban with no timeout of
\* its own: when the platform never answers, the promise never settles and
\* the loop stays at this server
BanCallHangs(s) ==
    /\ banSess[s].pc = "banning"
    /\ banSess' = [banSess EXCEPT ![s].pc = "hung"]
    /\ UNCHANGED <<now, collections, servers, invites, nextId, createSess, inviteSess,
                   joinSess, bans, nextBanId, unbanSess, groupVars>>

\* executeUnban awaits guilds.fetch and members.unban in the same way
UnbanCallHangs ==
    /\ unbanSess.pc = "running"
    /\ unbanSess' = [unbanSess EXCEPT !.pc = "hung"]
    /\ UNCHANGED <<now, collections, servers, invites, nextId, createSess, inviteSess,
                   joinSess, bans, nextBanId, banSess, groupVars>>

\* ------------------------------------------------------------ /collection-mods

IdleMods == [pc |-> "idle", collectionId |-> 0, actorId |-> 0]

\* the grants the panel can name: users and roles
ModeratorKeys ==
    {[type |-> "user", value |-> a] : a \in Actors} \cup
    {[type |-> "role", value |-> r] : r \in Roles}

\* Moderator.grant: the row it inserts
ModeratorGrantRow(cid, key, grantedBy) ==
    [collectionId |-> cid, type |-> key.type, value |-> key.value, grantedBy |-> grantedBy]

\* the grant of a collection to a user or a role: (collectionId, type, value)
SameGrant(m, row) ==
    /\ m.collectionId = row.collectionId
    /\ m.type = row.type
    /\ m.value = row.value

\* an INSERT INTO moderators on a table without the unique index
ModeratorInsertNoUnique(rows, row) == rows \cup {row}

\* INSERT INTO moderators: the unique index on (collectionId, type, value)
\* makes the statement throw and insert nothing when the table holds a row
\* of the same grant
ModeratorInsert(rows, row) ==
    IF \E m \in rows : SameGrant(m, row) THEN rows ELSE rows \cup {row}

\* chatInputRun up to showModeratorsList: the guild owner or an administrator
\* of a guild that owns a collection
ModsStart(actorId, hasAdminPermission, g) ==
    /\ modsSess.pc = "idle"
    /\ GuildOwnerId(g) = actorId \/ hasAdminPermission
    /\ \E c \in CollectionGetByMainGuildId(g) :
          modsSess' = [pc |-> "panel", collectionId |-> c.id, actorId |-> actorId]
    /\ UNCHANGED <<now, collections, servers, invites, nextId, createSess, inviteSess,
                   joinSess, bans, nextBanId, banSess, unbanSess, moderators, auditLogs, notify,
                   deleteSess, viewSess, editSess, addSess, evidenceIo>>

\* collectModeratorsToAdd, the collector's 'end': a key the collection does
\* not hold yet is granted and logged; a grant that throws (the collection
\* row is gone) is caught
ModeratorGrant(key, auditFails) ==
    /\ modsSess.pc = "panel"
    /\ ~(\E m \in moderators :
            SameGrant(m, ModeratorGrantRow(modsSess.collectionId, key, modsSess.actorId)))
    /\ IF CollectionGetById(modsSess.collectionId) = {}
       THEN /\ ~auditFails
            /\ UNCHANGED <<moderators, auditLogs, notify>>
       ELSE /\ moderators' =
                  ModeratorInsert(moderators,
                                  ModeratorGrantRow(modsSess.collectionId, key, modsSess.actorId))
            /\ auditLogs' = LogAction(auditLogs, collections, modsSess.collectionId,
                                      "moderator.add", auditFails)
            /\ notify' = LogActionNotify(notify, collections, modsSess.collectionId,
                                         auditFails)
    /\ UNCHANGED <<now, collections, servers, invites, nextId, createSess, inviteSess,
                   joinSess, bans, nextBanId, banSess, unbanSess, deleteSess, viewSess,
                   modsSess, editSess, addSess, evidenceIo>>

\* collectModeratorsToRemove, the collector's 'end': Moderator.remove of a
\* grant the collection holds, then the audit entry
ModeratorRemove(m, auditFails) ==
    /\ modsSess.pc = "panel"
    /\ m \in ModeratorListByCollection(modsSess.collectionId)
    /\ moderators' = moderators \ {m}
    /\ auditLogs' = LogAction(auditLogs, collections, modsSess.collectionId,
                              "moderator.remove", auditFails)
    /\ notify' = LogActionNotify(notify, collections, modsSess.collectionId, auditFails)
    /\ UNCHANGED <<now, collections, servers, invites, nextId, createSess, inviteSess,
                   joinSess, bans, nextBanId, banSess, unbanSess, deleteSess, viewSess,
                   modsSess, editSess, addSess, evidenceIo>>

\* ------------------------------------ /collection-mods, a second panel adding

IdleAdd == [pc |-> "idle", collectionId |-> 0, actorId |-> 0, existingSet |-> {},
            addedMods |-> <<>>, savedCount |-> 0]

\* the keys of the grants a collection holds
KeysOf(rows) == {[type |-> m.type, value |-> m.value] : m \in rows}

\* collectModeratorsToAdd up to createMessageCollector, in the panel of
\* another administrator of the owning guild: existingSet is read from the
\* table once, here
AddStart(actorId, hasAdminPermission, g) ==
    /\ addSess.pc = "idle"
    /\ GuildOwnerId(g) = actorId \/ hasAdminPermission
    /\ \E c \in CollectionGetByMainGuildId(g) :
          addSess' = [pc |-> "collecting", collectionId |-> c.id, actorId |-> actorId,
                      existingSet |-> KeysOf(ModeratorListByCollection(c.id)),
                      addedMods |-> <<>>, savedCount |-> 0]
    /\ UNCHANGED <<now, collections, servers, invites, nextId, createSess, inviteSess,
                   joinSess, bans, nextBanId, banSess, unbanSess, moderators, auditLogs, notify,
                   deleteSess, viewSess, modsSess, editSess, evidenceIo>>

\* the collector's 'collect' for a message naming one user or role: a key of
\* existingSet is skipped as a duplicate, another one is put on addedMods
\* and into existingSet
AddCollect(key) ==
    /\ addSess.pc = "collecting"
    /\ addSess' = IF key \in addSess.existingSet
                   THEN addSess
                   ELSE [addSess EXCEPT !.addedMods = Append(@, key),
                                        !.existingSet = @ \cup {key}]
    /\ UNCHANGED <<now, collections, servers, invites, nextId, createSess, inviteSess,
                   joinSess, bans, nextBanId, banSess, unbanSess, moderators, auditLogs, notify,
                   deleteSess, viewSess, modsSess, editSess, evidenceIo>>

\* the loop of the collector's 'end' over addedMods: Moderator.grant for each
\* key, a grant that throws is caught and the loop goes on
RECURSIVE GrantAll(_, _, _, _)
GrantAll(rows, cid, actorId, mods) ==
    IF mods = <<>> THEN rows
    ELSE GrantAll(IF CollectionGetById(cid) = {} THEN rows
                  ELSE ModeratorInsert(rows, ModeratorGrantRow(cid, Head(mods), actorId)),
                  cid, actorId, Tail(mods))

\* the collector's 'end' (a message without a mention, or two minutes): the
\* grants are inserted and counted, one 'moderator.add' entry is logged when
\* at least one was, and the result is shown
AddEnd(auditFails) ==
    /\ addSess.pc = "collecting"
    /\ moderators' = GrantAll(moderators, addSess.collectionId, addSess.actorId,
                              addSess.addedMods)
    /\ IF moderators' # moderators
       THEN /\ auditLogs' = LogAction(auditLogs, collections, addSess.collectionId,
                                      "moderator.add", auditFails)
            /\ notify' = LogActionNotify(notify, collections, addSess.collectionId,
                                         auditFails)
       ELSE /\ ~auditFails
            /\ UNCHANGED <<auditLogs, notify>>
    /\ addSess' = [addSess EXCEPT !.pc = "done",
                                  !.savedCount = Cardinality(moderators' \ moderators)]
    /\ UNCHANGED <<now, collections, servers, invites, nextId, createSess, inviteSess,
                   joinSess, bans, nextBanId, banSess, unbanSess, deleteSess, viewSess,
                   modsSess, editSess, evidenceIo>>

\* the result message is deleted after ten seconds and the panel shows the
\* list again
AddClose ==
    /\ addSess.pc = "done"
    /\ addSess' = IdleAdd
    /\ UNCHANGED <<now, collections, servers, invites, nextId, createSess, inviteSess,
                   joinSess, bans, nextBanId, banSess, unbanSess, moderators, auditLogs, notify,
                   deleteSess, viewSess, modsSess, editSess, evidenceIo>>

\* 'collection-mods:done', or the panel times out
ModsDone ==
    /\ modsSess.pc = "panel"
    /\ modsSess' = IdleMods
    /\ UNCHANGED <<now, collections, servers, invites, nextId, createSess, inviteSess,
                   joinSess, bans, nextBanId, banSess, unbanSess, moderators, auditLogs, notify,
                   deleteSess, viewSess, editSess, addSess, evidenceIo>>

\* ---------------------------------------------------------- /collection-delete

IdleDelete == [pc |-> "idle", collectionId |-> 0]

\* the tables of the store, as one value a transaction works on
Database ==
    [collections |-> collections, servers |-> servers, bans |-> bans,
     moderators |-> moderators, invites |-> invites, auditLogs |-> auditLogs]

\* the rows of a table that belong to collection cid
RowsOf(db, table, cid) ==
    IF table = "collections"
    THEN {r \in db[table] : r.id = cid}
    ELSE {r \in db[table] : r.collectionId = cid}

\* the tables whose rows carry FOREIGN KEY (collectionId) REFERENCES collections
ReferencingTables == {"servers", "bans", "moderators", "auditLogs", "invites"}

\* the DELETE statements of Collection.remove, in the order they run
CascadeOrder == <<"auditLogs", "moderators", "bans", "servers", "collections">>

\* statement k of the cascade throws: the store fails it (failAt), the
\* collection row is still referenced (foreign_keys = ON), or no row was
\* deleted (RecordNotFoundError)
StatementThrows(db, cid, k, failAt) ==
    \/ k = failAt
    \/ /\ CascadeOrder[k] = "collections"
       /\ \/ \E table \in ReferencingTables : RowsOf(db, table, cid) # {}
          \/ RowsOf(db, "collections", cid) = {}

\* the statements from k on, up to the first one that throws
RECURSIVE RunCascade(_, _, _, _)
RunCascade(db, cid, k, failAt) ==
    IF k > Len(CascadeOrder) THEN [db |-> db, threw |-> FALSE]
    ELSE IF StatementThrows(db, cid, k, failAt) THEN [db |-> db, threw |-> TRUE]
    ELSE RunCascade([db EXCEPT ![CascadeOrder[k]] = @ \ RowsOf(db, CascadeOrder[k], cid)],
                    cid, k + 1, failAt)

\* the cascade without db.transaction: what ran before the throw stays
CollectionRemoveNoTransaction(db, cid, failAt) == RunCascade(db, cid, 1, failAt).db

\* Collection.remove: db.transaction rolls every statement back when one throws
CollectionRemove(db, cid, failAt) ==
    LET run == RunCascade(db, cid, 1, failAt)
    IN  IF run.threw THEN db ELSE run.db

\* chatInputRun up to the confirmation prompt: the guild owner or an
\* administrator of a guild that owns a collection
DeleteStart(s, actorId, hasAdminPermission, g) ==
    /\ deleteSess[s].pc = "idle"
    /\ GuildOwnerId(g) = actorId \/ hasAdminPermission
    /\ \E c \in CollectionGetByMainGuildId(g) :
          deleteSess' = [deleteSess EXCEPT ![s] = [pc |-> "confirm", collectionId |-> c.id]]
    /\ UNCHANGED <<now, collections, servers, invites, nextId, createSess, inviteSess,
                   joinSess, bans, nextBanId, banSess, unbanSess, moderators, auditLogs, notify,
                   viewSess, modsSess, editSess, addSess, evidenceIo>>

\* 'collection-delete:confirm': the audit entry first, then Collection.remove;
\* a throw ends in the failure reply
DeleteConfirm(s, auditFails, failAt) ==
    /\ deleteSess[s].pc = "confirm"
    /\ LET cid == deleteSess[s].collectionId
           logged == [Database EXCEPT !.auditLogs =
                         LogAction(auditLogs, collections, cid, "collection.delete", auditFails)]
           db == CollectionRemove(logged, cid, failAt)
       IN  /\ collections' = db.collections
           /\ servers' = db.servers
           /\ bans' = db.bans
           /\ moderators' = db.moderators
           /\ invites' = db.invites
           /\ auditLogs' = db.auditLogs
           /\ notify' = LogActionNotify(notify, collections, cid, auditFails)
    /\ deleteSess' = [deleteSess EXCEPT ![s] = IdleDelete]
    /\ UNCHANGED <<now, nextId, createSess, inviteSess, joinSess, nextBanId, banSess,
                   unbanSess, viewSess, modsSess, editSess, addSess, evidenceIo>>

\* 'collection-delete:cancel', or the prompt times out
DeleteCancel(s) ==
    /\ deleteSess[s].pc = "confirm"
    /\ deleteSess' = [deleteSess EXCEPT ![s] = IdleDelete]
    /\ UNCHANGED <<now, collections, servers, invites, nextId, createSess, inviteSess,
                   joinSess, bans, nextBanId, banSess, unbanSess, moderators, auditLogs, notify,
                   viewSess, modsSess, editSess, addSess, evidenceIo>>

\* ----------------------------------------------------------- /edit-shareban

\* the evidence list of a ban is kept as the number of its entries

\* a loop body that adds the attachment whatever the list holds
EvidencePushNoLimit(evidence) == evidence + 1

\* handleEvidenceUpload, the loop body: the attachment is rejected when the
\* list already holds MAX_EVIDENCE_FILES entries, and added otherwise
EvidencePush(evidence) ==
    IF evidence >= MaxEvidenceFiles THEN evidence ELSE evidence + 1

\* handleEvidenceUpload, the loop over the attachments of one message
RECURSIVE HandleEvidenceUpload(_, _)
HandleEvidenceUpload(evidence, attachments) ==
    IF attachments = 0 THEN evidence
    ELSE HandleEvidenceUpload(EvidencePush(evidence), attachments - 1)

\* the setter Ban.evidence (and the same test in Ban.create): a list of more
\* than 5 entries throws
EvidenceAccepted(value) == value <= MaxEvidenceFiles

\* a save that propagates again and records the run
BanSaveResync(loaded, evidence) ==
    [loaded EXCEPT !.evidence = evidence,
                   !.appliedServersRecent =
                       Append(@, [guildId |-> loaded.moderatorGuildId, success |-> TRUE])]

\* Ban.save after handleConfirmEdit's assignments: the UPDATE writes every
\* column from the object loaded when the command started, with the
\* evidence edited in the menu
BanSave(loaded, evidence) == [loaded EXCEPT !.evidence = evidence]

\* /edit-shareban from chatInputRun to handleConfirmEdit in one stretch: the
\* command's guild belongs to the ban's collection, the caller is a moderator
\* or the owner, one message of evidence is uploaded, the ban is saved and
\* the edit logged
EditBan(actorId, g, b, attachments, auditFails) ==
    /\ b \in bans
    /\ HandleEvidenceUpload(b.evidence, attachments) # b.evidence
    /\ EvidenceAccepted(HandleEvidenceUpload(b.evidence, attachments))
    /\ \E c \in CollectionGetById(b.collectionId) :
          /\ GuildInCollection(g, c)
          /\ BanAuthorized(actorId, g, c)
    /\ bans' = (bans \ {b}) \cup {BanSave(b, HandleEvidenceUpload(b.evidence, attachments))}
    /\ auditLogs' = LogAction(auditLogs, collections, b.collectionId, "ban.edit", auditFails)
    /\ notify' = LogActionNotify(notify, collections, b.collectionId, auditFails)
    /\ UNCHANGED <<now, collections, servers, invites, nextId, createSess, inviteSess,
                   joinSess, nextBanId, banSess, unbanSess, moderators, deleteSess,
                   viewSess, modsSess, editSess, addSess, evidenceIo>>

\* ------------------------------------------- /edit-shareban, step by step

IdleEdit == [pc |-> "idle", actorId |-> 0, ban |-> <<>>, evidence |-> 0]

\* chatInputRun of /edit-shareban up to showConfigurationMenu: the ban and
\* its collection are loaded, the command's guild belongs to the collection,
\* the caller is a moderator or the owner; the menu starts from the ban's
\* values
EditStart(actorId, g, b) ==
    /\ editSess.pc = "idle"
    /\ b \in bans
    /\ \E c \in CollectionGetById(b.collectionId) :
          /\ GuildInCollection(g, c)
          /\ BanAuthorized(actorId, g, c)
    /\ editSess' = [pc |-> "config", actorId |-> actorId, ban |-> <<b>>,
                    evidence |-> b.evidence]
    /\ UNCHANGED <<now, collections, servers, invites, nextId, createSess, inviteSess,
                   joinSess, bans, nextBanId, banSess, unbanSess, moderators, auditLogs,
                   notify, deleteSess, viewSess, modsSess, addSess, evidenceIo>>

\* 'editban_evidence', enabled while the menu holds fewer than
\* MAX_EVIDENCE_FILES entries: the attachments of the message are added to
\* the menu's list one by one
EditEvidenceUpload(attachments) ==
    /\ editSess.pc = "config"
    /\ editSess.evidence < MaxEvidenceFiles
    /\ attachments > 0
    /\ editSess' = [editSess EXCEPT
                       !.evidence = HandleEvidenceUpload(@, attachments)]
    /\ UNCHANGED <<now, collections, servers, invites, nextId, createSess, inviteSess,
                   joinSess, bans, nextBanId, banSess, unbanSess, moderators, auditLogs,
                   notify, deleteSess, viewSess, modsSess, addSess, evidenceIo>>

\* handleConfirmEdit: the menu's values are assigned to the loaded ban (the
\* evidence setter throws on more than 5 entries and the handler ends
\* there), Ban.save updates the row with the ban's id (no such row: the
\* error reply), the edit is logged and the result shown
ConfirmEdit(auditFails) ==
    /\ editSess.pc = "config"
    /\ LET loaded == Head(editSess.ban)
           stored == {b \in bans : b.id = loaded.id}
       IN  IF ~EvidenceAccepted(editSess.evidence)
           THEN /\ ~auditFails
                /\ editSess' = [editSess EXCEPT !.pc = "failed"]
                /\ UNCHANGED <<bans, auditLogs, notify>>
           ELSE IF stored = {}
           THEN /\ ~auditFails
                /\ editSess' = [editSess EXCEPT !.pc = "error"]
                /\ UNCHANGED <<bans, auditLogs, notify>>
           ELSE /\ bans' = (bans \ stored) \cup {BanSave(loaded, editSess.evidence)}
                /\ auditLogs' = LogAction(auditLogs, collections, loaded.collectionId,
                                          "ban.edit", auditFails)
                /\ notify' = LogActionNotify(notify, collections, loaded.collectionId,
                                             auditFails)
                /\ editSess' = [editSess EXCEPT !.pc = "done"]
    /\ UNCHANGED <<now, collections, servers, invites, nextId, createSess, inviteSess,
                   joinSess, nextBanId, banSess, unbanSess, moderators, deleteSess,
                   viewSess, modsSess, addSess, evidenceIo>>

\* 'editban_cancel', the menu times out, or the reply is dismissed
EditClose ==
    /\ editSess.pc # "idle"
    /\ editSess' = IdleEdit
    /\ UNCHANGED <<now, collections, servers, invites, nextId, createSess, inviteSess,
                   joinSess, bans, nextBanId, banSess, unbanSess, moderators, auditLogs,
                   notify, deleteSess, viewSess, modsSess, addSess, evidenceIo>>

\* ------------------------------------------------- the evidence validator

\* ALLOWED_MAGIC_BYTES: the signatures of png, jpg, gif, webp, bmp, pdf, mp4,
\* webm and txt (the UTF-8 byte order mark)
AllowedMagicBytes ==
    {<<137, 80, 78, 71>>,
     <<255, 216, 255, 224>>, <<255, 216, 255, 225>>, <<255, 216, 255, 226>>,
     <<255, 216, 255, 219>>,
     <<71, 73, 70, 56, 55, 97>>, <<71, 73, 70, 56, 57, 97>>,
     <<82, 73, 70, 70>>,
     <<66, 77>>,
     <<37, 80, 68, 70>>,
     <<0, 0, 0, 24, 102, 116, 121, 112>>,
     <<26, 69, 223, 163>>,
     <<239, 187, 191>>}

\* BLOCKED_MAGIC_BYTES: Windows executables, ELF, Mach-O (32 and 64 bit), zip
BlockedMagicBytes ==
    {<<77, 90>>, <<127, 69, 76, 70>>, <<202, 254, 186, 190>>, <<207, 250, 237, 254>>,
     <<80, 75, 3, 4>>}

\* checkMagicBytes: some signature is a prefix of the buffer
CheckMagicBytes(buffer, signatures) ==
    \E sig \in signatures :
       /\ Len(buffer) >= Len(sig)
       /\ \A index \in 1..Len(sig) : buffer[index] = sig[index]

\* isBlockedFile
IsBlockedFile(buffer) == CheckMagicBytes(buffer, BlockedMagicBytes)

\* the plain-text test of isAllowedFile: each of the first PlainTextWindow
\* bytes is printable ASCII, a line feed, a carriage return or a tab
IsPlainText(buffer) ==
    \A index \in 1..Len(buffer) :
       index <= PlainTextWindow =>
          \/ buffer[index] >= 32 /\ buffer[index] <= 126
          \/ buffer[index] \in {10, 13, 9}

\* a validator that accepts on the allowlist or the plain-text test before
\* it looks at the blocked signatures
IsAllowedFileAllowFirst(buffer) ==
    \/ CheckMagicBytes(buffer, AllowedMagicBytes)
    \/ IsPlainText(buffer)

\* isAllowedFile: blocked signatures first, then the allowlist, then the
\* plain-text test
IsAllowedFile(buffer) ==
    IF IsBlockedFile(buffer) THEN FALSE
    ELSE IF CheckMagicBytes(buffer, AllowedMagicBytes) THEN TRUE
    ELSE IsPlainText(buffer)

\* the bytes the buffers are made of: those of the signatures MZ, PK 03 04,
\* BM and %PDF, NUL and a line feed
SampleBytes == {0, 3, 4, 10, 37, 66, 68, 70, 75, 77, 80, 90}

\* the downloaded buffers
Buffers == UNION {[1..n -> SampleBytes] : n \in 0..MaxBufLen}

IdleEvidence == [pc |-> "idle", buffer |-> <<>>, contentType |-> "unknown", name |-> <<>>,
                 files |-> {}, filename |-> <<>>, ref |-> <<>>, outcome |-> "none"]

\* ------------------------------------------------------ the evidence store

\* the characters of attachment names and stored references: a lower-case
\* and an upper-case letter, the dot and the path separator
PathChars == {"a", "A", ".", "/"}

\* attachment names, and the references a row of evidence can hold
Names == UNION {[1..n -> PathChars] : n \in 1..MaxNameLen}

\* the content types a download reports: one of the table of
\* getFileExtension, one that is not
ContentTypes == {"image/png", "unknown"}

\* String.prototype.toLowerCase, character by character
ToLowerCase(str) == [i \in 1..Len(str) |-> IF str[i] = "A" THEN "a" ELSE str[i]]

\* a path cut at its separators
RECURSIVE SplitPath(_)
SplitPath(str) ==
    IF str = <<>> THEN << <<>> >>
    ELSE LET rest == SplitPath(Tail(str))
         IN  IF Head(str) = "/"
             THEN << <<>> >> \o rest
             ELSE << <<Head(str)>> \o Head(rest) >> \o Tail(rest)

\* path.basename: the last segment that is not empty
Basename(str) ==
    LET segs == SelectSeq(SplitPath(str), LAMBDA seg : seg # <<>>)
    IN  IF segs = <<>> THEN <<>> ELSE segs[Len(segs)]

\* path.extname: from the last dot of the basename to its end; empty when
\* there is no dot, when the dot is the first character, and for '..'
Extname(str) ==
    LET base == Basename(str)
        dots == {i \in 1..Len(base) : base[i] = "."}
        startDot == CHOOSE i \in dots : \A j \in dots : j <= i
    IN  IF dots = {} \/ base = <<".", ".">> THEN <<>>
        ELSE IF startDot = 1 THEN <<>>
        ELSE SubSeq(base, startDot, Len(base))

\* String.prototype.slice(1): the string without its first character
Slice(str) == IF str = <<>> THEN <<>> ELSE Tail(str)

\* getFileExtension: the extension of a known content type, else the
\* lower-cased extension of the attachment's name without its dot, else 'bin'
GetFileExtension(contentType, originalName) ==
    IF contentType = "image/png" THEN <<"png">>
    ELSE LET ext == Slice(ToLowerCase(Extname(originalName)))
         IN  IF ext # <<>> THEN ext ELSE <<"bin">>

\* EVIDENCE_DIR: path.join(process.cwd(), 'evidence'), as segments
EvidenceDir == << <<"cwd">>, <<"evidence">> >>

\* path.resolve of segments on top of a directory: '.' and empty segments
\* are dropped, '..' leaves the directory it is in
RECURSIVE ResolveFrom(_, _)
ResolveFrom(dir, segs) ==
    IF segs = <<>> THEN dir
    ELSE ResolveFrom(IF Head(segs) = <<>> \/ Head(segs) = <<".">> THEN dir
                     ELSE IF Head(segs) = <<".", ".">>
                          THEN SubSeq(dir, 1, Len(dir) - 1)
                          ELSE Append(dir, Head(segs)),
                     Tail(segs))

\* path.resolve(path.join(EVIDENCE_DIR, str))
ResolveInEvidenceDir(str) == ResolveFrom(EvidenceDir, SplitPath(str))

\* resolvedPath.startsWith(path.resolve(EVIDENCE_DIR) + path.sep)
WithinEvidenceDir(resolved) ==
    /\ Len(resolved) > Len(EvidenceDir)
    /\ SubSeq(resolved, 1, Len(EvidenceDir)) = EvidenceDir

\* `${fileId}.${ext}`: the name a file is stored under, fileId being a fresh
\* randomUUID()
StoredFilename(fileId, contentType, originalName) ==
    <<fileId, ".">> \o GetFileExtension(contentType, originalName)

\* handleEvidenceUpload for one attachment, from the download on: a buffer
\* that fails isAllowedFile is reported and skipped; another is written to
\* EVIDENCE_DIR under its stored file name, which becomes the entry's ref
EvidenceUploadFile ==
    /\ evidenceIo.pc = "downloaded"
    /\ evidenceIo' =
          IF ~IsAllowedFile(evidenceIo.buffer)
          THEN [evidenceIo EXCEPT !.pc = "rejected"]
          ELSE [evidenceIo EXCEPT
                   !.pc = "stored",
                   !.files = {ResolveInEvidenceDir(
                                 StoredFilename("uuid", evidenceIo.contentType,
                                                evidenceIo.name))},
                   !.filename = StoredFilename("uuid", evidenceIo.contentType,
                                               evidenceIo.name)]
    /\ UNCHANGED <<now, collections, servers, invites, nextId, createSess, inviteSess,
                   joinSess, bans, nextBanId, banSess, unbanSess, moderators, auditLogs, notify,
                   deleteSess, viewSess, modsSess, editSess, addSess>>

\* '..' occurs in the string
IncludesDotDot(str) == \E i \in 1..(Len(str) - 1) : str[i] = "." /\ str[i + 1] = "."

\* a reader that joins any reference to the directory
RefAcceptedAny(ref) == TRUE

\* handleEvidenceAccess, the two tests of a reference: it is its own
\* basename and holds no '..', and joined to EVIDENCE_DIR it resolves to a
\* path below the directory
RefAccepted(ref) ==
    /\ Basename(ref) = ref
    /\ ~IncludesDotDot(ref)
    /\ WithinEvidenceDir(ResolveInEvidenceDir(Basename(ref)))

\* fs.existsSync: below EVIDENCE_DIR the files that were stored there;
\* elsewhere the files of the host, taken to exist
ExistsSync(resolved) ==
    IF WithinEvidenceDir(resolved) THEN resolved \in evidenceIo.files ELSE TRUE

\* handleEvidenceAccess for one entry of storage 'external': the stored
\* reference, or whatever the row holds, is tested, looked up and read
EvidenceRead(ref) ==
    /\ evidenceIo.pc = "stored"
    /\ evidenceIo' =
          [evidenceIo EXCEPT
              !.pc = "answered",
              !.ref = ref,
              !.outcome = IF ~RefAccepted(ref) THEN "invalid"
                          ELSE IF ExistsSync(ResolveInEvidenceDir(ref)) THEN "read"
                          ELSE "notfound"]
    /\ UNCHANGED <<now, collections, servers, invites, nextId, createSess, inviteSess,
                   joinSess, bans, nextBanId, banSess, unbanSess, moderators, auditLogs, notify,
                   deleteSess, viewSess, modsSess, editSess, addSess>>

\* the result of the access is shown; the button can be pressed again
EvidenceReplied ==
    /\ evidenceIo.pc = "answered"
    /\ evidenceIo' = [evidenceIo EXCEPT !.pc = "stored", !.ref = <<>>, !.outcome = "none"]
    /\ UNCHANGED <<now, collections, servers, invites, nextId, createSess, inviteSess,
                   joinSess, bans, nextBanId, banSess, unbanSess, moderators, auditLogs, notify,
                   deleteSess, viewSess, modsSess, editSess, addSess>>

\* ------------------------------------------- /view-banshare, /lookup-shareban

IdleView == [pc |-> "idle", command |-> "none", actorId |-> 0, collectionId |-> 0,
             evidence |-> FALSE, guildId |-> 0, reasons |-> {}]

\* AuditLog.create called by a handler itself: the row is inserted, or the
\* store throws and the handler ends there, its reply never sent. The reply
\* is kept with the guild the command ran in and the bans whose internal
\* reason it prints
ReadCommand(command, actorId, g, cid, evidence, reasons, action, auditFails) ==
    /\ viewSess' = [pc |-> IF auditFails THEN "failed" ELSE "shown",
                    command |-> command, actorId |-> actorId, collectionId |-> cid,
                    evidence |-> evidence, guildId |-> g,
                    reasons |-> IF auditFails THEN {} ELSE reasons]
    /\ auditLogs' = IF auditFails THEN auditLogs
                    ELSE auditLogs \cup {AuditLogCreateRow(cid, action)}
    /\ notify' = notify
    /\ UNCHANGED <<now, collections, servers, invites, nextId, createSess, inviteSess,
                   joinSess, bans, nextBanId, banSess, unbanSess, moderators, deleteSess,
                   modsSess, editSess, addSess, evidenceIo>>

\* buildBanDetailsEmbed, the field 'Reason (Internal)': the ban's reason is
\* printed whatever privatiseReason says and whichever guild the command
\* runs in; privatiseReason is printed as 'Reason Visibility'
BanDetailsReasons(g, b) == {b.id}

\* showPaginatedResults of /lookup-shareban: every ban record of the page
\* prints the first 100 characters of the ban's reason
LookupReasons(g, results) == {b.id : b \in results}

\* chatInputRun of /view-banshare: the command's guild belongs to the ban's
\* collection, the caller is a moderator or the owner, the view is recorded
\* and the details are shown
ViewBan(actorId, g, b, auditFails) ==
    /\ viewSess.pc = "idle"
    /\ b \in bans
    /\ \E c \in CollectionGetById(b.collectionId) :
          /\ GuildInCollection(g, c)
          /\ BanAuthorized(actorId, g, c)
    /\ ReadCommand("view", actorId, g, b.collectionId, b.evidence > 0,
                   BanDetailsReasons(g, b), "ban.view", auditFails)

\* handleEvidenceAccess: the evidence button of the details shown, enabled
\* when the ban holds evidence
EvidenceAccess(auditFails) ==
    /\ viewSess.pc = "shown"
    /\ viewSess.command = "view"
    /\ viewSess.evidence
    /\ ReadCommand("evidence", viewSess.actorId, viewSess.guildId, viewSess.collectionId,
                   FALSE, {}, "evidence.access", auditFails)

\* chatInputRun of /lookup-shareban for a user with bans in the collection the
\* command's guild acts for: the caller is a moderator or the owner, the
\* lookup is recorded and the results are shown
LookupBan(actorId, g, u, auditFails) ==
    /\ viewSess.pc = "idle"
    /\ \E c \in CollectionOfGuild(g) :
          /\ BanAuthorized(actorId, g, c)
          /\ \E b \in bans : b.collectionId = c.id /\ b.userId = u
          /\ ReadCommand("lookup", actorId, g, c.id, FALSE,
                         LookupReasons(g, {b \in bans : b.collectionId = c.id /\ b.userId = u}),
                         "ban.lookup", auditFails)

\* the reply is closed, or was never sent
ViewClose ==
    /\ viewSess.pc # "idle"
    /\ viewSess' = IdleView
    /\ UNCHANGED <<now, collections, servers, invites, nextId, createSess, inviteSess,
                   joinSess, bans, nextBanId, banSess, unbanSess, moderators, auditLogs, notify,
                   deleteSess, modsSess, editSess, addSess, evidenceIo>>

\* ---------------------------------------- /collection-edit: other settings

\* handleToggleSetting for 'loggingEnabledAtCollectionLevel', behind the
\* permission check of /collection-edit: the value chosen is saved and the
\* change logged
ToggleSetting(actorId, hasAdminPermission, c, pendingValue, auditFails) ==
    /\ c \in collections
    /\ GuildOwnerId(c.mainGuildId) = actorId \/ hasAdminPermission
    /\ collections' = (collections \ {c}) \cup
                         {[c EXCEPT !.loggingEnabledAtCollectionLevel = pendingValue]}
    /\ auditLogs' = LogAction(auditLogs, collections, c.id, "setting.update", auditFails)
    /\ notify' = LogActionNotify(notify, collections', c.id, auditFails)
    /\ UNCHANGED <<now, servers, invites, nextId, createSess, inviteSess, joinSess,
                   bans, nextBanId, banSess, unbanSess, moderators, deleteSess, viewSess, modsSess, editSess, addSess, evidenceIo>>

\* the values of the policy buttons
OnServerRemovePolicies == {"retain", "lift", "archive"}

\* handleEditOnServerRemove: the policy chosen is saved; the handler writes
\* to the console and makes no call of logAction
EditOnServerRemove(actorId, hasAdminPermission, c, pendingValue) ==
    /\ c \in collections
    /\ GuildOwnerId(c.mainGuildId) = actorId \/ hasAdminPermission
    /\ pendingValue \in OnServerRemovePolicies
    /\ collections' = (collections \ {c}) \cup {[c EXCEPT !.onServerRemove = pendingValue]}
    /\ UNCHANGED <<now, servers, invites, nextId, createSess, inviteSess, joinSess,
                   bans, nextBanId, banSess, unbanSess, groupVars>>

\* ------------------------------------------- sendAuditLogNotifications, run

\* everything a command handler reads or writes
operationVars ==
    <<now, collections, servers, invites, nextId, createSess, inviteSess, joinSess,
      bans, nextBanId, banSess, unbanSess, moderators, auditLogs, deleteSess, viewSess,
      modsSess, editSess, addSess, evidenceIo>>

\* the order of Server.listByCollection (ORDER BY addedAt DESC): the guild
\* that joined last first, guilds joining in the order of their ids
RECURSIVE NewestFirst(_)
NewestFirst(S) ==
    IF S = {} THEN <<>>
    ELSE LET m == CHOOSE x \in S : \A y \in S : x >= y
         IN  <<m>> \o NewestFirst(S \ {m})

\* the enabled members of a collection that have a logging channel
ServersWithChannel(cid) ==
    {r.guildId : r \in {m \in EnabledMembers(cid) : m.loggingChannelId # 0}}

\* one entry of the run's record of deliveries
Delivery(stage, target, role, ok) ==
    [stage |-> stage, target |-> target, role |-> role, ok |-> ok]

\* sentToServerChannel of a run that made the deliveries `log`
SentToServerChannel(log) ==
    \E i \in 1..Len(log) : log[i].stage = "member" /\ log[i].ok

\* a loop over the members' channels that stops at the first delivery
RemainingServersBreak(pending, ok) == IF ok THEN <<>> ELSE Tail(pending)

\* `for (const server of servers)`: the servers left after one iteration,
\* whatever its outcome
RemainingServers(pending, ok) == Tail(pending)

\* a fallback that runs whatever the members' channels received
FallbackNeededAlways(log) == TRUE

\* `if (!sentToServerChannel)`: the main collection log is tried
FallbackNeeded(log) == ~SentToServerChannel(log)

\* after `await buildAuditLogEmbed`: the enabled servers are listed; those
\* without a logging channel are passed over, and with none left the run
\* turns to the main collection log
NotifyListServers ==
    /\ notify.pc = "embed"
    /\ LET pending == NewestFirst(ServersWithChannel(notify.collectionId))
       IN  notify' = [notify EXCEPT !.pending = pending,
                                    !.pc = IF pending = <<>> THEN "main" ELSE "members"]
    /\ UNCHANGED operationVars

\* one iteration of the loop over the servers: guild and channel are fetched
\* and the embed is sent (ok), or one of the calls throws and is caught
NotifyMember(ok) ==
    /\ notify.pc = "members"
    /\ LET log == Append(notify.log, Delivery("member", Head(notify.pending), 0, ok))
           rest == RemainingServers(notify.pending, ok)
       IN  notify' = [notify EXCEPT !.log = log, !.pending = rest,
                                    !.pc = IF rest # <<>> THEN "members"
                                           ELSE IF FallbackNeeded(log) THEN "main"
                                           ELSE "done"]
    /\ UNCHANGED operationVars

\* what sendToMainCollectionLog can meet in the main guild
MainOutcomes == {"unreachable", "sent", "sendfails", "missing"}

\* sendToMainCollectionLog: the main guild or its channels cannot be fetched
\* (caught, the run ends); 'shareban-logs' exists and the send resolves, or
\* throws (caught, the run ends); the channel is missing and the run turns to
\* dmCollectionAdmins
NotifyMain(outcome) ==
    /\ notify.pc = "main"
    /\ outcome \in MainOutcomes
    /\ notify' =
          IF outcome = "unreachable" THEN [notify EXCEPT !.pc = "done"]
          ELSE IF outcome = "missing" THEN [notify EXCEPT !.pc = "owner"]
          ELSE [notify EXCEPT !.pc = "done",
                              !.log = Append(@, Delivery("main", notify.mainGuildId, 0,
                                                         outcome = "sent"))]
    /\ UNCHANGED operationVars

\* dmCollectionAdmins, first try: the owner is fetched and sent the warning
\* (the run ends), or that throws and the administrators are fetched next
NotifyOwner(ok) ==
    /\ notify.pc = "owner"
    /\ notify' = [notify EXCEPT
                     !.pc = IF ok THEN "done" ELSE "fetch",
                     !.log = Append(@, Delivery("owner", GuildOwnerId(notify.mainGuildId),
                                                0, ok))]
    /\ UNCHANGED operationVars

\* role.position of the administrator roles
RolePosition(r) == r

\* the administrator roles a member holds: the last member holds them all
MemberAdminRoles(m) == IF m = NumAdmins THEN AdminRoles ELSE {1 + (m % NumAdminRoles)}

\* adminRoles.sort((a, b) => b.position - a.position)
RECURSIVE SortByPosition(_)
SortByPosition(S) ==
    IF S = {} THEN <<>>
    ELSE LET r == CHOOSE x \in S : \A y \in S : RolePosition(x) >= RolePosition(y)
         IN  <<r>> \o SortByPosition(S \ {r})

\* the members the two nested loops visit, in order: role by role, and for
\* each role the members that hold it
RECURSIVE AdminTargets(_)
AdminTargets(roles) ==
    IF roles = <<>> THEN <<>>
    ELSE LET members == SetToSeq({m \in Admins : Head(roles) \in MemberAdminRoles(m)})
         IN  [i \in 1..Len(members) |-> [member |-> members[i], role |-> Head(roles)]]
                \o AdminTargets(Tail(roles))

\* loops that stop at a delivery or at the end of the list only
AdminLoopEndsNoCap(attempts, targets, ok) == ok \/ attempts >= Len(targets)

\* the nested loops end: a DM was delivered (return), `attempts >=
\* maxAttempts` (break), or no member is left
AdminLoopEnds(attempts, targets, ok) ==
    ok \/ attempts >= MaxAttempts \/ attempts >= Len(targets)

\* members and roles of the main guild are fetched; a throw is caught and
\* the run ends
NotifyFetchAdmins(ok) ==
    /\ notify.pc = "fetch"
    /\ notify' = [notify EXCEPT
                     !.pc = IF ok /\ ~AdminLoopEnds(0, AdminTargets(SortByPosition(AdminRoles)),
                                                    FALSE)
                            THEN "admins" ELSE "done"]
    /\ UNCHANGED operationVars

\* one iteration of the inner loop: attempts++, the member is sent the
\* warning (return) or the send throws (continue)
NotifyAdmin(ok) ==
    /\ notify.pc = "admins"
    /\ LET targets == AdminTargets(SortByPosition(AdminRoles))
           t == targets[notify.attempts + 1]
           attempts == notify.attempts + 1
       IN  notify' = [notify EXCEPT
                         !.attempts = attempts,
                         !.log = Append(@, Delivery("admin", t.member, t.role, ok)),
                         !.pc = IF AdminLoopEnds(attempts, targets, ok)
                                THEN "done" ELSE "admins"]
    /\ UNCHANGED operationVars

\* the run followed is over; the next one started is followed
NotifyEnd ==
    /\ notify.pc = "done"
    /\ notify' = NotifyIdle
    /\ UNCHANGED operationVars

\* ---------------------------------------------------------- specification

Init ==
    /\ now = 0
    /\ collections = {}
    /\ servers = {}
    /\ invites = {}
    /\ nextId = [collection |-> 1, invite |-> 1]
    /\ createSess = [g \in Guilds |-> 0]
    /\ inviteSess = [s \in Sess |-> IdleInvite]
    /\ joinSess = [s \in Sess |-> IdleJoin]
    /\ bans = {}
    /\ nextBanId = 1
    /\ banSess = [s \in Sess |-> IdleBan]
    /\ unbanSess = IdleUnban
    /\ moderators = {}
    /\ auditLogs = {}
    /\ deleteSess = [s \in Sess |-> IdleDelete]
    /\ viewSess = IdleView
    /\ modsSess = IdleMods
    /\ notify = NotifyOff
    /\ editSess = IdleEdit
    /\ addSess = IdleAdd
    /\ evidenceIo = IdleEvidence

\* The membership commands, run by the owner of the guild, with one draft
\* menu per guild at a time and an audit store that takes every entry
\* (SpecGroup has the overlapping menus, SpecAudit the failing store)
Next ==
    \/ Tick
    \/ \E g \in Owners : createSess[g] = 0 /\ CreateStart(g)
    \/ \E g \in Owners : CreateSave(g, FALSE)
    \/ \E c \in collections, parsed \in 1..MaxCapInput : EditMaxServers(GuildOwnerId(c.mainGuildId), FALSE, c, parsed, FALSE)
    \/ \E s \in Sess, c \in collections, target \in Guilds : InviteCheck(s, c, target)
    \/ \E s \in Sess, c \in collections, target \in Guilds : InviteRejected(s, c, target)
    \/ \E s \in Sess : InviteCreate(s, FALSE)
    \/ \E s \in Sess, g \in Guilds, inv \in invites : JoinStart(s, g, inv)
    \/ \E s \in Sess, writeFails \in BOOLEAN : AcceptInvite(s, writeFails, FALSE)
    \/ \E r \in servers : ServerRemove(r)

Spec == Init /\ [][Next]_vars

\* The invite life cycle on its own: a collection that guild 1 created, its
\* invites issued, accepted, cancelled and expired while the clock runs
InitInvite ==
    /\ now = 0
    /\ collections = {CollectionCreateRow(1, 1)}
    /\ servers = {}
    /\ invites = {}
    /\ nextId = [collection |-> 2, invite |-> 1]
    /\ createSess = [g \in Guilds |-> 0]
    /\ inviteSess = [s \in Sess |-> IdleInvite]
    /\ joinSess = [s \in Sess |-> IdleJoin]
    /\ bans = {}
    /\ nextBanId = 1
    /\ banSess = [s \in Sess |-> IdleBan]
    /\ unbanSess = IdleUnban
    /\ moderators = {}
    /\ auditLogs = {AuditLogCreateRow(1, "collection.create")}
    /\ deleteSess = [s \in Sess |-> IdleDelete]
    /\ viewSess = IdleView
    /\ modsSess = IdleMods
    /\ notify = NotifyOff
    /\ editSess = IdleEdit
    /\ addSess = IdleAdd
    /\ evidenceIo = IdleEvidence

NextInvite ==
    \/ Tick
    \/ \E s \in Sess, c \in collections, target \in Guilds : InviteCheck(s, c, target)
    \/ \E s \in Sess, c \in collections, target \in Guilds : InviteRejected(s, c, target)
    \/ \E s \in Sess, auditFails \in BOOLEAN : InviteCreate(s, auditFails)
    \/ \E s \in Sess, g \in Guilds, inv \in invites : JoinStart(s, g, inv)
    \/ \E s \in Sess, writeFails, auditFails \in BOOLEAN :
          AcceptInvite(s, writeFails, auditFails)
    \/ \E inv \in invites : InviteCancel(inv)
    \/ \E inv \in invites : InviteExpire(inv)

SpecInvite == InitInvite /\ [][NextInvite]_vars

\* A collection owned by guild 1 whose invites to guilds 2..NumGuilds were
\* accepted and whose owner granted the last user moderator: the membership
\* the ban commands run against, and the moderator who runs them
InitBan ==
    /\ now = 0
    /\ collections = {CollectionCreateRow(1, 1)}
    /\ servers = {ServerAddRow(g, 1) : g \in Guilds \ {1}}
    /\ invites = {[id |-> g - 1, collectionId |-> 1, targetGuildId |-> g,
                   invitedAt |-> 0, expiresAt |-> InviteTtlHours, status |-> "accepted"]
                     : g \in Guilds \ {1}}
    /\ nextId = [collection |-> 2, invite |-> NumGuilds]
    /\ createSess = [g \in Guilds |-> 0]
    /\ inviteSess = [s \in Sess |-> IdleInvite]
    /\ joinSess = [s \in Sess |-> IdleJoin]
    /\ bans = {}
    /\ nextBanId = 1
    /\ banSess = [s \in Sess |-> IdleBan]
    /\ unbanSess = IdleUnban
    /\ moderators = {ModeratorGrantRow(1, [type |-> "user", value |-> NumActors], GuildOwnerId(1))}
    /\ auditLogs = {AuditLogCreateRow(1, action) :
                      action \in {"collection.create", "invite.create",
                                  "server.add", "invite.accept", "moderator.add"}}
    /\ deleteSess = [s \in Sess |-> IdleDelete]
    /\ viewSess = IdleView
    /\ modsSess = IdleMods
    /\ notify = NotifyOff
    /\ editSess = IdleEdit
    /\ addSess = IdleAdd
    /\ evidenceIo = IdleEvidence

NextBan ==
    \/ \E s \in Sess, g \in Guilds, u \in Users : BanStart(s, NumActors, g, u)
    \/ \E s \in Sess, g \in Guilds : BanSelectServers(s, g)
    \/ \E s \in Sess : BanConfirm(s)
    \/ \E s \in Sess, ok \in BOOLEAN : BanApply(s, ok, FALSE)
    \/ \E g \in Guilds, u \in Users : UnbanStart(NumActors, g, u)
    \/ UnbanConfirm
    \/ \E ok \in BOOLEAN : UnbanApply(ok, FALSE, FALSE)
    \/ \E r \in servers : ServerRemove(r)

SpecBan == InitBan /\ [][NextBan]_vars

\* The life of a collection from its creation to its deletion: overlapping
\* draft menus in the guilds that create one, then, for the collection of
\* guild 1, the rows that come to depend on it (grants, an invite, a member,
\* a ban, audit entries) and /collection-delete with a store that can fail
\* any statement of the cascade
NextGroup ==
    \/ \E g \in Owners : CreateStart(g)
    \/ \E g \in Owners : CreateSave(g, FALSE)
    \/ ModsStart(GuildOwnerId(1), FALSE, 1)
    \/ \E key \in ModeratorKeys : ModeratorGrant(key, FALSE)
    \/ ModsDone
    \/ \E c \in CollectionGetByMainGuildId(1) : InviteCheck(1, c, NumGuilds)
    \/ InviteCreate(1, FALSE)
    \/ \E inv \in invites : JoinStart(1, NumGuilds, inv)
    \/ AcceptInvite(1, FALSE, FALSE)
    \/ \E u \in Users : BanStart(1, GuildOwnerId(1), 1, u)
    \/ BanConfirm(1)
    \/ BanApply(1, TRUE, FALSE)
    \/ DeleteStart(1, GuildOwnerId(1), FALSE, 1)
    \/ \E auditFails \in BOOLEAN, failAt \in 0..Len(CascadeOrder) :
          DeleteConfirm(1, auditFails, failAt)
    \/ DeleteCancel(1)

SpecGroup == Init /\ [][NextGroup]_vars

\* Who may do what: on the membership of InitBan every user runs the ban
\* commands, /collection-edit and /collection-mods, with or without the
\* Administrator permission, while grants come and go
NextAuth ==
    \/ \E a \in Actors, hasAdminPermission \in BOOLEAN, g \in Guilds :
          ModsStart(a, hasAdminPermission, g)
    \/ \E key \in ModeratorKeys : ModeratorGrant(key, FALSE)
    \/ \E m \in moderators : ModeratorRemove(m, FALSE)
    \/ ModsDone
    \/ \E a \in Actors, hasAdminPermission \in BOOLEAN, c \in collections,
          parsed \in 1..MaxCapInput :
          EditMaxServers(a, hasAdminPermission, c, parsed, FALSE)
    \/ \E a \in Actors, g \in Guilds, u \in Users : BanStart(1, a, g, u)
    \/ BanConfirm(1)
    \/ BanApply(1, TRUE, FALSE)
    \/ \E a \in Actors, g \in Guilds, u \in Users : UnbanStart(a, g, u)
    \/ UnbanConfirm
    \/ UnbanApply(TRUE, FALSE, FALSE)
    \/ \E a \in Actors, g \in Guilds, b \in bans : EditBan(a, g, b, 1, FALSE)

SpecAuth == InitBan /\ [][NextAuth]_vars

\* The audit trail with a store that may fail any entry: a moderator bans,
\* edits, revokes, and every user runs the read commands
NextAudit ==
    \/ \E g \in Guilds, u \in Users : BanStart(1, NumActors, g, u)
    \/ BanConfirm(1)
    \/ \E auditFails \in BOOLEAN : BanApply(1, TRUE, auditFails)
    \/ \E g \in Guilds, b \in bans, auditFails \in BOOLEAN :
          EditBan(NumActors, g, b, 1, auditFails)
    \/ \E g \in Guilds, u \in Users : UnbanStart(NumActors, g, u)
    \/ UnbanConfirm
    \/ \E auditFails \in BOOLEAN : UnbanApply(TRUE, FALSE, auditFails)
    \/ \E a \in Actors, g \in Guilds, b \in bans, auditFails \in BOOLEAN :
          ViewBan(a, g, b, auditFails)
    \/ \E auditFails \in BOOLEAN : EvidenceAccess(auditFails)
    \/ \E a \in Actors, g \in Guilds, u \in Users, auditFails \in BOOLEAN :
          LookupBan(a, g, u, auditFails)
    \/ ViewClose

SpecAudit == InitBan /\ [][NextAudit]_vars

\* The notification task: the collection of InitBan, whose members may have
\* a logging channel; the owner changes settings and grants, a member
\* leaves, and the run started by a logged change is followed to its end
InitNotify ==
    /\ now = 0
    /\ collections = {CollectionCreateRow(1, 1)}
    /\ servers \in {{[ServerAddRow(g, 1) EXCEPT !.loggingChannelId = ch[g]] :
                        g \in Guilds \ {1}} : ch \in [Guilds \ {1} -> {0, 1}]}
    /\ invites = {[id |-> g - 1, collectionId |-> 1, targetGuildId |-> g,
                   invitedAt |-> 0, expiresAt |-> InviteTtlHours, status |-> "accepted"]
                     : g \in Guilds \ {1}}
    /\ nextId = [collection |-> 2, invite |-> NumGuilds]
    /\ createSess = [g \in Guilds |-> 0]
    /\ inviteSess = [s \in Sess |-> IdleInvite]
    /\ joinSess = [s \in Sess |-> IdleJoin]
    /\ bans = {}
    /\ nextBanId = 1
    /\ banSess = [s \in Sess |-> IdleBan]
    /\ unbanSess = IdleUnban
    /\ moderators = {ModeratorGrantRow(1, [type |-> "user", value |-> NumActors], GuildOwnerId(1))}
    /\ auditLogs = {AuditLogCreateRow(1, action) :
                      action \in {"collection.create", "invite.create",
                                  "server.add", "invite.accept", "moderator.add"}}
    /\ deleteSess = [s \in Sess |-> IdleDelete]
    /\ viewSess = IdleView
    /\ modsSess = IdleMods
    /\ notify = NotifyIdle
    /\ editSess = IdleEdit
    /\ addSess = IdleAdd
    /\ evidenceIo = IdleEvidence

NextNotify ==
    \/ \E c \in collections, pendingValue \in BOOLEAN :
          ToggleSetting(1, FALSE, c, pendingValue, FALSE)
    \/ \E c \in collections, pendingValue \in OnServerRemovePolicies :
          EditOnServerRemove(1, FALSE, c, pendingValue)
    \/ ModsStart(1, FALSE, 1)
    \/ \E key \in ModeratorKeys : ModeratorGrant(key, FALSE)
    \/ \E m \in moderators : ModeratorRemove(m, FALSE)
    \/ ModsDone
    \/ \E r \in servers : ServerRemove(r)
    \/ NotifyListServers
    \/ \E ok \in BOOLEAN : NotifyMember(ok)
    \/ \E outcome \in MainOutcomes : NotifyMain(outcome)
    \/ \E ok \in BOOLEAN : NotifyOwner(ok)
    \/ \E ok \in BOOLEAN : NotifyFetchAdmins(ok)
    \/ \E ok \in BOOLEAN : NotifyAdmin(ok)
    \/ NotifyEnd

SpecNotify == InitNotify /\ [][NextNotify]_vars

\* The Ban record: a moderator bans, edits the ban step by step and revokes
\* it; platform calls succeed, fail or never return, and the store may fail
\* the save of a revocation
NextRecord ==
    \/ \E g \in Guilds, u \in Users : BanStart(1, NumActors, g, u)
    \/ BanConfirm(1)
    \/ \E ok \in BOOLEAN : BanApply(1, ok, FALSE)
    \/ BanCallHangs(1)
    \/ \E g \in Guilds, b \in bans : EditStart(NumActors, g, b)
    \/ \E attachments \in 1..MaxAttachments : EditEvidenceUpload(attachments)
    \/ ConfirmEdit(FALSE)
    \/ EditClose
    \/ \E g \in Guilds, u \in Users : UnbanStart(NumActors, g, u)
    \/ UnbanConfirm
    \/ \E ok, saveFails \in BOOLEAN : UnbanApply(ok, saveFails, FALSE)
    \/ UnbanCallHangs

SpecRecord == InitBan /\ [][NextRecord]_vars

\* the event loop runs a handler's continuation once the call it awaits has
\* settled
SpecRecordFair ==
    /\ SpecRecord
    /\ WF_vars(\E ok \in BOOLEAN : BanApply(1, ok, FALSE))
    /\ WF_vars(\E ok, saveFails \in BOOLEAN : UnbanApply(ok, saveFails, FALSE))

\* A server joins a collection that already has bans: the collection of
\* guild 1 with guild 2 as its member and a pending invite for the last
\* guild; a moderator bans and revokes while the invited guild answers the
\* invite, with the sync toggle on or off
InitSync ==
    /\ now = 0
    /\ collections = {CollectionCreateRow(1, 1)}
    /\ servers = {ServerAddRow(2, 1)}
    /\ invites = {[id |-> 1, collectionId |-> 1, targetGuildId |-> 2,
                   invitedAt |-> 0, expiresAt |-> InviteTtlHours, status |-> "accepted"],
                  [id |-> 2, collectionId |-> 1, targetGuildId |-> NumGuilds,
                   invitedAt |-> 0, expiresAt |-> InviteTtlHours, status |-> "pending"]}
    /\ nextId = [collection |-> 2, invite |-> 3]
    /\ createSess = [g \in Guilds |-> 0]
    /\ inviteSess = [s \in Sess |-> IdleInvite]
    /\ joinSess = [s \in Sess |-> IdleJoin]
    /\ bans = {}
    /\ nextBanId = 1
    /\ banSess = [s \in Sess |-> IdleBan]
    /\ unbanSess = IdleUnban
    /\ moderators = {ModeratorGrantRow(1, [type |-> "user", value |-> NumActors], GuildOwnerId(1))}
    /\ auditLogs = {AuditLogCreateRow(1, action) :
                      action \in {"collection.create", "invite.create",
                                  "server.add", "invite.accept", "moderator.add"}}
    /\ deleteSess = [s \in Sess |-> IdleDelete]
    /\ viewSess = IdleView
    /\ modsSess = IdleMods
    /\ notify = NotifyOff
    /\ editSess = IdleEdit
    /\ addSess = IdleAdd
    /\ evidenceIo = IdleEvidence

NextSync ==
    \/ \E g \in Guilds, u \in Users : BanStart(1, NumActors, g, u)
    \/ BanConfirm(1)
    \/ \E ok \in BOOLEAN : BanApply(1, ok, FALSE)
    \/ \E g \in Guilds, u \in Users : UnbanStart(NumActors, g, u)
    \/ UnbanConfirm
    \/ \E ok \in BOOLEAN : UnbanApply(ok, FALSE, FALSE)
    \/ \E s \in Sess, g \in Guilds, inv \in invites : JoinStart(s, g, inv)
    \/ \E s \in Sess : ToggleSync(s)
    \/ \E s \in Sess : AcceptInvite(s, FALSE, FALSE)

SpecSync == InitSync /\ [][NextSync]_vars

\* everything but the evidence store, as InitBan has it
InitBanRecords ==
    /\ now = 0
    /\ collections = {CollectionCreateRow(1, 1)}
    /\ servers = {ServerAddRow(g, 1) : g \in Guilds \ {1}}
    /\ invites = {[id |-> g - 1, collectionId |-> 1, targetGuildId |-> g,
                   invitedAt |-> 0, expiresAt |-> InviteTtlHours, status |-> "accepted"]
                     : g \in Guilds \ {1}}
    /\ nextId = [collection |-> 2, invite |-> NumGuilds]
    /\ createSess = [g \in Guilds |-> 0]
    /\ inviteSess = [s \in Sess |-> IdleInvite]
    /\ joinSess = [s \in Sess |-> IdleJoin]
    /\ bans = {}
    /\ nextBanId = 1
    /\ banSess = [s \in Sess |-> IdleBan]
    /\ unbanSess = IdleUnban
    /\ moderators = {ModeratorGrantRow(1, [type |-> "user", value |-> NumActors],
                                       GuildOwnerId(1))}
    /\ auditLogs = {AuditLogCreateRow(1, action) :
                      action \in {"collection.create", "invite.create",
                                  "server.add", "invite.accept", "moderator.add"}}
    /\ deleteSess = [s \in Sess |-> IdleDelete]
    /\ viewSess = IdleView
    /\ modsSess = IdleMods
    /\ notify = NotifyOff
    /\ editSess = IdleEdit
    /\ addSess = IdleAdd

\* The evidence validator: a buffer of the sample has been downloaded for an
\* attachment of an evidence message
InitValidate ==
    /\ InitBanRecords
    /\ evidenceIo \in {[IdleEvidence EXCEPT !.pc = "downloaded", !.buffer = buffer,
                                            !.name = <<"a", ".", "a">>]
                          : buffer \in Buffers}

NextValidate == EvidenceUploadFile

SpecValidate == InitValidate /\ [][NextValidate]_vars

\* The evidence store: an attachment of any name and content type, a PDF or
\* an executable, has been downloaded; it is stored, and references are read
\* back: the one stored, and whatever else a row of evidence may hold
InitStore ==
    /\ InitBanRecords
    /\ evidenceIo \in {[IdleEvidence EXCEPT !.pc = "downloaded", !.buffer = buffer,
                                            !.contentType = contentType, !.name = name]
                          : buffer \in {<<37, 80, 68, 70>>, <<77, 90>>},
                            contentType \in ContentTypes, name \in Names}

NextStore ==
    \/ EvidenceUploadFile
    \/ \E ref \in Names \cup {evidenceIo.filename} : EvidenceRead(ref)
    \/ EvidenceReplied

SpecStore == InitStore /\ [][NextStore]_vars

\* Bans with a private or a public reason, created from any guild of the
\* collection and read from any guild of it
NextView ==
    \/ \E g \in Guilds, u \in Users : BanStart(1, NumActors, g, u)
    \/ BanTogglePrivatise(1)
    \/ BanConfirm(1)
    \/ \E ok \in BOOLEAN : BanApply(1, ok, FALSE)
    \/ \E g \in Guilds, b \in bans : ViewBan(NumActors, g, b, FALSE)
    \/ \E g \in Guilds, u \in Users : LookupBan(NumActors, g, u, FALSE)
    \/ ViewClose

SpecView == InitBan /\ [][NextView]_vars

\* A ban created with evidence: the moderator uploads files in the menu of
\* /shareban, confirms, and the ban is propagated and stored
NextShare ==
    \/ \E g \in Guilds, u \in Users : BanStart(1, NumActors, g, u)
    \/ \E g \in Guilds : BanSelectServers(1, g)
    \/ \E attachments \in 1..MaxAttachments : BanEvidenceUpload(1, attachments)
    \/ BanConfirm(1)
    \/ \E ok \in BOOLEAN : BanApply(1, ok, FALSE)

SpecShare == InitBan /\ [][NextShare]_vars

\* The grants of the collection of guild 1, edited from two panels at once:
\* the owner's, which grants and removes one key at a time, and an
\* administrator's, which collects keys and grants them when it ends
NextGrant ==
    \/ ModsStart(GuildOwnerId(1), FALSE, 1)
    \/ \E key \in ModeratorKeys : ModeratorGrant(key, FALSE)
    \/ \E m \in moderators : ModeratorRemove(m, FALSE)
    \/ ModsDone
    \/ AddStart(NumActors, TRUE, 1)
    \/ \E key \in ModeratorKeys : AddCollect(key)
    \/ AddEnd(FALSE)
    \/ AddClose

SpecGrant == InitInvite /\ [][NextGrant]_vars


\* ------------------------------------------------------------ ban creation

\* the number of failed entries of a run list or result list
FailedCount(seq) == Cardinality({i \in 1..Len(seq) : ~seq[i].success})
FailedRuns(seq) == Cardinality({i \in 1..Len(seq) : seq[i].result = "failed"})

\* C1: when a ban session with N selected servers, K of whose platform calls
\* failed, persists its Ban, the new row carries exactly N run entries, exactly
\* K of them failed, and is active.
C1_PersistedRunEntries ==
    [][\A s \in Sess :
          (banSess[s].pc = "banning" /\ banSess'[s].pc = "done") =>
             \E b \in bans' \ bans :
                /\ b.id = banSess'[s].banId
                /\ Len(b.appliedServersRecent) = Cardinality(banSess'[s].selected)
                /\ FailedRuns(b.appliedServersRecent) = FailedCount(banSess'[s].results)
                /\ b.active]_vars

C4_NoDuplicateActiveBan ==
    \A b1, b2 \in bans :
       (b1.active /\ b2.active /\ b1.collectionId = b2.collectionId /\ b1.userId = b2.userId)
          => b1.id = b2.id

\* ------------------------------------------------------------- revocation

\* the unban session finishes the ban at the head of its list in this step
UnbanFinishesBan ==
    /\ unbanSess.pc = "running"
    /\ Len(unbanSess.results) + 1 = Len(unbanSess.targets)

\* C5: no step removes a Ban row, and the step in which a revocation finishes
\* leaves the revoked Ban in the table with active = false, whatever the
\* remove-ban calls returned.
C5_RevokeKeepsRow ==
    [][/\ \A b \in bans : \E r \in bans' : r.id = b.id
       /\ (UnbanFinishesBan /\ unbanSess' # unbanSess) =>
             \E r \in bans' : r.id = Head(unbanSess.bans).id /\ ~r.active]_vars

\* C5 happens: a revocation all of whose remove-ban calls failed has
\* finished, and the Ban is there, inactive
C5_Witness ==
    /\ unbanSess.pc = "done"
    /\ Len(unbanSess.results) >= 2
    /\ \A i \in 1..Len(unbanSess.results) : ~unbanSess.results[i].success
    /\ \E b \in bans : ~b.active

\* C6: when a revocation resolves the servers to unban from, they are the
\* servers enrolled in the ban's collection at that moment: its main guild
\* and its enabled members, and no disabled member.
C6_RevokeTargetsEnabledMembers ==
    [][(unbanSess'.pc = "running" /\ unbanSess'.targets # unbanSess.targets) =>
          \A c \in CollectionGetById(Head(unbanSess'.bans).collectionId) :
             {unbanSess'.targets[i] : i \in 1..Len(unbanSess'.targets)}
                = {c.mainGuildId} \cup {r.guildId : r \in EnabledMembers(c.id)}]_vars

\* ------------------------------------------------------------- membership

\* the accept step of join session s: acceptInvite runs from its re-checks
\* to its end
AcceptStep(s) == joinSess[s].pc = "confirm" /\ joinSess'[s].pc = "idle"

\* C7: acceptance is one transaction: a step that creates the Member of
\* guild g in collection c also flips the pending invite it accepted to
\* accepted, so no failure part-way leaves the Member with a pending invite.
C7_AcceptIsAtomic ==
    [][\A s \in Sess :
          (AcceptStep(s) /\ servers' # servers) =>
             \E inv \in invites :
                /\ inv.id = joinSess[s].inviteId
                /\ inv.status = "pending"
                /\ \E a \in invites' : a.id = inv.id /\ a.status = "accepted"]_vars

\* C8: at every point in time a guild is an enabled member of at most one
\* collection.
C8_SingleEnabledMembership ==
    \A g \in Guilds : Cardinality({r \in servers : r.guildId = g /\ r.enabled}) <= 1

\* C8 happens: a guild that joined one collection while its accept of another
\* collection's live invite was waiting for confirmation
C8_Witness ==
    \E s \in Sess :
       /\ joinSess[s].pc = "confirm"
       /\ \E inv \in invites :
             /\ inv.id = joinSess[s].inviteId
             /\ inv.status = "pending"
             /\ ~IsExpired(inv)
             /\ \E r \in servers : /\ r.guildId = joinSess[s].guildId
                                   /\ r.enabled
                                   /\ r.collectionId # inv.collectionId

\* C9: an accept that passed the invite and exclusivity re-checks is refused
\* for capacity exactly when the collection already has as many enabled
\* members as its limit.
C9_CapacityCountsEnabledMembers ==
    [][\A s \in Sess :
          AcceptStep(s) =>
             LET g == joinSess[s].guildId
                 inv == InviteById(joinSess[s].inviteId)
             IN  AcceptOutcome(g, inv) \in {"capacity", "constraint", "joined"} =>
                    \A c \in CollectionGetById(inv.collectionId) :
                       (AcceptOutcome(g, inv) = "capacity")
                          <=> (Cardinality(EnabledMembers(c.id)) >= c.maxLinkedServers)]_vars

\* C10: at any time at most one pending, unexpired invite exists for a
\* (collection, target guild) pair.
C10_OnePendingInvitePerPair ==
    \A i1, i2 \in invites :
       (/\ i1.collectionId = i2.collectionId
        /\ i1.targetGuildId = i2.targetGuildId
        /\ i1.status = "pending" /\ ~IsExpired(i1)
        /\ i2.status = "pending" /\ ~IsExpired(i2))
          => i1.id = i2.id

\* ----------------------------------------------------------- invite status

\* C11: an invite's status only moves from pending to accepted, cancelled or
\* expired, and an invite in one of those states keeps it in every later step.
C11_TerminalStatusIsFinal ==
    [][\A inv \in invites : \A a \in invites' :
          (a.id = inv.id /\ a.status # inv.status) =>
             /\ inv.status = "pending"
             /\ a.status \in {"accepted", "cancelled", "expired"}]_vars

C13_OneCollectionPerMainGuild ==
    \A c1, c2 \in collections : c1.mainGuildId = c2.mainGuildId => c1.id = c2.id

\* C13 happens: a guild's collection was created while a second creation
\* session of the same guild is still open
C13_Witness ==
    \E g \in Guilds : CollectionGetByMainGuildId(g) # {} /\ createSess[g] > 0

\* ------------------------------------------------------ collection deletion

\* a /collection-delete prompt of session s was answered in this step
DeleteAnswered(s) == deleteSess[s].pc = "confirm" /\ deleteSess'[s].pc = "idle"

\* the rows of every table that belong to collection cid
RowsReferencing(db, cid) ==
    UNION {RowsOf(db, table, cid) : table \in ReferencingTables \cup {"collections"}}

\* C14: a confirmed deletion of an existing collection, with a store that
\* fails no statement, removes the collection and every row that depends on
\* it (members, bans, grants, invites, audit entries): afterwards no table
\* holds a row of it and its owning guild owns no collection.
C14_DeleteRemovesEverything ==
    [][\A s \in Sess, auditFails \in BOOLEAN :
          (/\ DeleteAnswered(s)
           /\ DeleteConfirm(s, auditFails, 0)
           /\ CollectionGetById(deleteSess[s].collectionId) # {}) =>
             /\ RowsReferencing(Database', deleteSess[s].collectionId) = {}
             /\ \A c \in CollectionGetById(deleteSess[s].collectionId) :
                   \A c2 \in collections' : c2.mainGuildId # c.mainGuildId]_vars

\* C15: a deletion is all or nothing: after the prompt is answered either no
\* row of the collection is left in any table, or every row that was there
\* before is still there, whichever statement of the cascade failed.
C15_DeleteIsAtomic ==
    [][\A s \in Sess :
          DeleteAnswered(s) =>
             \/ RowsReferencing(Database', deleteSess[s].collectionId) = {}
             \/ RowsReferencing(Database, deleteSess[s].collectionId)
                   \subseteq RowsReferencing(Database', deleteSess[s].collectionId)]_vars

\* C15 happens: a collection with a grant and a ban and no invite, whose
\* deletion was logged and then failed in the store, is still whole
C15_Witness ==
    \E c \in collections :
       /\ AuditLogCreateRow(c.id, "collection.delete") \in auditLogs
       /\ RowsOf(Database, "invites", c.id) = {}
       /\ RowsOf(Database, "moderators", c.id) # {}
       /\ RowsOf(Database, "bans", c.id) # {}

\* ------------------------------------------------------------ authorization

\* the actor owns the guild that owns collection cid, or a user grant or a
\* role grant of the collection covers the actor
Covered(actorId, cid) ==
    \/ \E c \in CollectionGetById(cid) : GuildOwnerId(c.mainGuildId) = actorId
    \/ IsUserModerator(actorId, cid)

\* C16: the ban commands act only for a covered actor: a /shareban menu
\* opens, a ban is edited and an /unshareban prompt offers bans for
\* revocation only when the caller owns the owning guild or is covered by a
\* user or role grant of the ban's collection at that moment.
C16_BanCommandsNeedCoverage ==
    [][/\ \A s \in Sess :
             (banSess[s].pc = "idle" /\ banSess'[s].pc = "config") =>
                Covered(banSess'[s].actorId, banSess'[s].collectionId)
       /\ \A a \in Actors, g \in Guilds, b \in bans :
             (bans' # bans /\ EditBan(a, g, b, 1, FALSE)) =>
                Covered(a, b.collectionId)
       /\ (unbanSess.pc = "idle" /\ unbanSess'.pc = "confirm") =>
             \A i \in 1..Len(unbanSess'.bans) :
                Covered(unbanSess'.actorId, unbanSess'.bans[i].collectionId)]_vars

\* C17: the capacity setting of a collection is changed, and its moderator
\* grants are added or removed, only by the owner of the owning guild.
C17_OwnerOnlySettingsAndGrants ==
    [][/\ \A a \in Actors, hasAdminPermission \in BOOLEAN, c \in collections,
            parsed \in 1..MaxCapInput :
             (/\ collections' # collections
              /\ EditMaxServers(a, hasAdminPermission, c, parsed, FALSE)) =>
                a = GuildOwnerId(c.mainGuildId)
       /\ (modsSess.pc = "panel" /\ moderators' # moderators) =>
             \A c \in CollectionGetById(modsSess.collectionId) :
                modsSess.actorId = GuildOwnerId(c.mainGuildId)]_vars

\* a role grant of collection cid names a role the actor holds
HasRoleGrant(actorId, cid) ==
    \E m \in ModeratorListByCollection(cid) :
       m.type = "role" /\ m.value \in MemberRoles(actorId)

\* C18: an actor who holds a role that a role grant of a collection names
\* passes the authorization check of every moderator command (/shareban,
\* /edit-shareban, /view-banshare and /lookup-shareban share one check,
\* /unshareban has its own) in every guild of the collection.
C18_RoleGrantAuthorizes ==
    \A a \in Actors, c \in collections, g \in Guilds :
       (HasRoleGrant(a, c.id) /\ GuildInCollection(g, c)) =>
          /\ BanAuthorized(a, g, c)
          /\ UnbanAuthorized(a, g, c)

\* C19: a Ban is persisted only on behalf of an actor who, at that moment,
\* owns the owning guild or is covered by a grant: once the grant that covered
\* a moderator is removed, no Ban of that moderator is inserted any more.
C19_NoBanAfterGrantRemoved ==
    [][\A b \in bans' :
          (\A old \in bans : old.id # b.id) => Covered(b.moderatorId, b.collectionId)]_vars

\* -------------------------------------------------------------- audit trail

\* C20: an audit entry that cannot be persisted never aborts the operation
\* that wrote it: no read command (ban view, evidence access, ban lookup)
\* ends without its reply because the audit store failed.
C20_AuditFailureNeverAborts == viewSess.pc # "failed"

\* ------------------------------------------------------------ notifications

\* the positions of the deliveries of one stage in a run's record
StageEntries(log, stage) == {i \in 1..Len(log) : log[i].stage = stage}

\* C21: the notification run is fire-and-forget. The run a logged operation
\* starts has attempted no delivery when the operation's handler is through
\* with logAction, and no later step of the run, whatever it delivers or
\* fails to deliver, changes anything a command handler wrote or replies.
C21_NotificationsFireAndForget ==
    [][/\ (notify.pc = "idle" /\ notify'.pc # "idle") =>
             (notify'.pc = "embed" /\ notify'.log = <<>>)
       /\ (notify.pc \notin {"idle", "off"} /\ notify' # notify) =>
             UNCHANGED operationVars]_vars

\* a setting change is saved and logged, and the run it started has ended
\* with every delivery failed
C21_Witness ==
    /\ notify.pc = "done"
    /\ notify.log # <<>>
    /\ \A i \in 1..Len(notify.log) : ~notify.log[i].ok
    /\ AuditLogCreateRow(notify.collectionId, "setting.update") \in auditLogs

\* C22 as stated: once one per-member delivery has succeeded, no further
\* per-member channel is attempted.
C22_AtMostOneMemberDelivery ==
    \A i, j \in StageEntries(notify.log, "member") : (i < j) => ~notify.log[i].ok

\* C22, amended: every enabled member that has a logging channel when the
\* run lists the servers is attempted once, in the order listed and whatever
\* the other deliveries did; the main collection log is tried after the last
\* of them exactly when none of these deliveries succeeded.
C22_EveryMemberChannelTried ==
    [][/\ (notify.pc = "embed" /\ notify'.pc # "embed") =>
             /\ {notify'.pending[i] : i \in 1..Len(notify'.pending)}
                   = ServersWithChannel(notify.collectionId)
             /\ Len(notify'.pending) = Cardinality(ServersWithChannel(notify.collectionId))
       /\ (notify.pc = "members" /\ notify' # notify) =>
             /\ notify'.pending = Tail(notify.pending)
             /\ Len(notify'.log) = Len(notify.log) + 1
             /\ notify'.log[Len(notify'.log)].stage = "member"
             /\ notify'.log[Len(notify'.log)].target = Head(notify.pending)
             /\ (notify'.pc = "members") <=> (Tail(notify.pending) # <<>>)
             /\ (notify'.pc = "main") <=>
                   (Tail(notify.pending) = <<>> /\ ~SentToServerChannel(notify'.log))]_vars

\* two members' channels both received the notification of one run
C22_Witness ==
    Cardinality({i \in StageEntries(notify.log, "member") : notify.log[i].ok}) >= 2

\* the place of a stage in the fallback chain
StageRank(stage) ==
    CASE stage = "member" -> 1
      [] stage = "main" -> 2
      [] stage = "owner" -> 3
      [] stage = "admin" -> 4

C25_EveryChangeIsLogged ==
    [][\A c \in collections, d \in collections' :
          (d.id = c.id /\ d # c) =>
             AuditLogCreateRow(c.id, "setting.update") \in auditLogs']_vars

\* ------------------------------------------------------------ the Ban record

\* C26: a failure to persist the primary Ban record is surfaced as a failed
\* operation. A ban session ends as done only with its Ban inserted, and a
\* revocation that finishes a ban whose row is still active afterwards (the
\* save did not happen) ends as failed instead of going on to its result.
C26_RecordFailureSurfaced ==
    [][/\ \A s \in Sess :
             (banSess[s].pc = "banning" /\ banSess'[s].pc = "done") =>
                \E b \in bans' \ bans : b.id = banSess'[s].banId
       /\ (/\ UnbanFinishesBan
           /\ unbanSess' # unbanSess
           /\ unbanSess'.pc # "hung"
           /\ \E r \in bans' : r.id = Head(unbanSess.bans).id /\ r.active) =>
             unbanSess'.pc = "failed"]_vars

\* C27: propagation always terminates: a ban session that is making its
\* platform calls ends (done, or failed at the insert), and a revocation that
\* is making its calls ends, even when a call never returns.
C27_PropagationTerminates ==
    /\ (banSess[1].pc = "banning") ~> (banSess[1].pc \in {"done", "failed"})
    /\ (unbanSess.pc = "running") ~> (unbanSess.pc = "done")

\* C28: editing a Ban makes no platform call and leaves the run lists alone:
\* a step of the edit session changes no ban or revocation session (where
\* every apply-ban and remove-ban call is recorded) and no Ban's run list,
\* and removes no Ban.
C28_EditLeavesPropagationAlone ==
    [][(editSess' # editSess) =>
          /\ banSess' = banSess
          /\ unbanSess' = unbanSess
          /\ \A b \in bans :
                \E r \in bans' : /\ r.id = b.id
                                 /\ r.appliedServersRecent = b.appliedServersRecent]_vars

\* an edit that added evidence to a propagated ban has been saved
C28_Witness ==
    /\ editSess.pc = "done"
    /\ banSess[1].pc = "done"
    /\ \E b \in bans : /\ b.id = Head(editSess.ban).id
                       /\ b.evidence = editSess.evidence
                       /\ b.evidence > Head(editSess.ban).evidence

\* C29: the step in which a revocation saves a ban inactive appends one run
\* entry per server attempted to the ban's propagation record.
C29_RevokeAppendsRunEntries ==
    [][UnbanFinishesBan =>
          \A b \in bans, r \in bans' :
             (b.id = Head(unbanSess.bans).id /\ r.id = b.id /\ b.active /\ ~r.active) =>
                Len(r.appliedServersRecent)
                   = Len(b.appliedServersRecent) + Len(unbanSess.targets)]_vars

\* the smaller of two numbers
Min(a, b) == IF a <= b THEN a ELSE b

C37_ActiveIsMonotonic ==
    [][\A b \in bans, r \in bans' : (r.id = b.id /\ ~b.active) => ~r.active]_vars

\* ------------------------------------------------- audit entries and effects

\* C38: an audit entry exists only if its action took effect: no collection
\* that still exists has a 'collection.delete' entry recorded.
C38_NoDeleteEntryForLiveCollection ==
    \A c \in collections : AuditLogCreateRow(c.id, "collection.delete") \notin auditLogs

\* ------------------------------------------------- one collection per server

\* C39: a server is in at most one collection counting ownership: a guild
\* that owns a collection is no enabled member of another collection.
C39_OwnerIsNoMemberElsewhere ==
    \A c \in collections, r \in servers :
       (r.guildId = c.mainGuildId /\ r.enabled) => r.collectionId = c.id

\* ------------------------------------------------------------- sync on join

\* C36: when a server accepts an invite with the sync toggle on, every active
\* Ban of the collection is applied to the server that joined: the step that
\* adds the server's row makes a ban call in the joined guild for the user of
\* every active Ban of the collection.
C36_JoinSyncsActiveBans ==
    [][\A s \in Sess, r \in servers' \ servers :
          (joinSess[s].pc = "confirm" /\ joinSess'[s].pc = "idle"
              /\ r.guildId = joinSess[s].guildId /\ r.syncOnJoin) =>
             \A b \in BanListActive(r.collectionId) :
                b.userId \in SyncOnJoinCalls(r.guildId, r.collectionId, r.syncOnJoin)]_vars

\* ------------------------------------------------------------ unique grants

\* C35: moderator grants are unique per (collection, kind, subject): the
\* table never holds two rows of one grant, and no step changes or replaces
\* the row of a grant that is held, a grant of it attempted again included.
C35_GrantsAreUnique ==
    [][/\ \A m1, m2 \in moderators' : SameGrant(m1, m2) => m1 = m2
       /\ \A m \in moderators, r \in moderators' : SameGrant(m, r) => r = m]_vars

\* C35 happens: the administrator's panel collected a key that the owner
\* granted before the panel ended; the panel's own grant of that key was
\* rejected (it saved fewer grants than it collected) and the owner's row is
\* the one the table holds
C35_Witness ==
    /\ addSess.pc = "done"
    /\ addSess.savedCount < Len(addSess.addedMods)
    /\ \E i \in 1..Len(addSess.addedMods) :
          ModeratorGrantRow(addSess.collectionId, addSess.addedMods[i], GuildOwnerId(1))
             \in moderators

\* ------------------------------------------------ evidence of a new ban

\* C33: the evidence files accepted during a ban-creation session are
\* attached to the Ban the session creates: the row inserted when the session
\* finishes holds one evidence entry per accepted upload.
C33_CreatedBanCarriesEvidence ==
    [][\A s \in Sess :
          (banSess[s].pc = "banning" /\ banSess'[s].pc = "done") =>
             \E b \in bans' \ bans :
                /\ b.id = banSess'[s].banId
                /\ b.evidence = banSess[s].evidence]_vars

\* ------------------------------------------------------------ private reasons

\* C34: the internal reason of a Ban whose reason is private is never
\* disclosed to a moderator who reads the Ban from a server other than the
\* issuing server: no reply of /view-banshare or /lookup-shareban that is
\* shown in another guild prints the reason of such a ban.
C34_PrivateReasonStaysHome ==
    [][(viewSess.pc = "idle" /\ viewSess'.pc = "shown") =>
          \A b \in bans :
             (b.id \in viewSess'.reasons /\ b.privatiseReason)
                => viewSess'.guildId = b.moderatorGuildId]_vars

\* ------------------------------------------------------------ evidence files

\* C32: the validator rejects every buffer whose prefix matches a blocked
\* signature, also when the buffer matches an allowed signature or passes
\* the plain-text test: no such buffer is stored.
C32_BlocklistTakesPrecedence ==
    (evidenceIo.pc \in {"stored", "rejected"} /\ IsBlockedFile(evidenceIo.buffer)) =>
       /\ evidenceIo.pc = "rejected"
       /\ evidenceIo.files = {}

\* C32 happens: a buffer that starts with MZ and is plain text all through
\* was rejected
C32_Witness ==
    /\ evidenceIo.pc = "rejected"
    /\ IsBlockedFile(evidenceIo.buffer)
    /\ IsPlainText(evidenceIo.buffer)
    /\ Len(evidenceIo.buffer) > 2

\* C31: evidence is stored and read only under the evidence root. A stored
\* file lies directly in the directory under a name that starts with the
\* fresh id and has no separator, whatever the attachment was called; a
\* reference that resolves to no path below the directory is rejected, and
\* what is read is a file stored there.
C31_EvidenceStaysUnderRoot ==
    /\ \A file \in evidenceIo.files :
          /\ WithinEvidenceDir(file)
          /\ Len(file) = Len(EvidenceDir) + 1
          /\ file[Len(file)] = evidenceIo.filename
          /\ Head(evidenceIo.filename) = "uuid"
          /\ evidenceIo.filename # evidenceIo.name
    /\ evidenceIo.pc = "answered" =>
          /\ ~WithinEvidenceDir(ResolveInEvidenceDir(evidenceIo.ref))
                => evidenceIo.outcome = "invalid"
          /\ evidenceIo.outcome = "read"
                => ResolveInEvidenceDir(evidenceIo.ref) \in evidenceIo.files

\* C31 happens: an attachment named '../a' was stored, and a reference that
\* climbs out of the directory was rejected
C31_Witness ==
    /\ evidenceIo.pc = "answered"
    /\ evidenceIo.name = <<".", ".", "/", "a">>
    /\ evidenceIo.files # {}
    /\ evidenceIo.ref = <<".", ".", "/", "a">>
    /\ evidenceIo.outcome = "invalid"
====
